---- MODULE Spec2Model ----
(***************************************************************************)
(* A model of the CSTL library (wangzhongyi0/cstl): the iterator protocol  *)
(* of the vector and of the list, the four sort algorithms of algo.c run   *)
(* on a vector, the memory pool and the object pool of common.c, and the   *)
(* locking of the vector's public operations.                              *)
(*                                                                         *)
(* The module holds several specifications over one set of variables; each *)
(* specification moves only the variables of its own part of the library.  *)
(***************************************************************************)
EXTENDS Integers, Sequences, FiniteSets, TLC

VARIABLES
    \* ---- algo_sort over a vector (SpecSort)
    s_pc,        \* "ready" before the call, "done" after it
    s_orig,      \* the vector's elements before the call
    s_algo,      \* the sort_algorithm_t argument
    s_fail,      \* which malloc of the call returns NULL (0: none)
    s_call,      \* the entry point called
    s_null,      \* which of begin, end, compare the caller passes as NULL
    s_vec,       \* the vector's elements
    s_made,      \* the allocations the call asked for
    s_rc,        \* the error_code_t the call returned
    s_deep,      \* the most frames the sort had on the stack at once
    s_list,      \* a list of the same elements and the call made on it
    \* ---- one mem_pool_t and the threads calling it (SpecMemPool, SpecPoolSeq)
    mp_grow,     \* pool->grow_size
    mp_cap,      \* blocks the allocator can supply before it returns NULL
    mp_head,     \* pool->free_list: the first free block, or NULL
    mp_next,     \* mp_next[b]: block b's next field; Len(mp_next) blocks exist
    mp_free,     \* pool->free_blocks
    mp_alloc,    \* pool->allocated_blocks
    mp_lock,     \* pool->lock: the thread holding it, or 0
    mp_pc,       \* mp_pc[t]: where thread t is inside its call
    mp_block,    \* mp_block[t]: the local variable block of thread t's call
    mp_held,     \* mp_held[t]: the blocks handed to thread t, not yet returned
    mp_burst,    \* mp_burst[t]: what t's last mem_pool_alloc got from the allocator
    mp_seen,     \* ghost: the counter pairs the pool held with its lock free
    \* ---- the caller's script of SpecPoolSeq: n allocs, n frees, allocs again
    d_phase,     \* "warm", "alloc", "free", "again" or "done"
    d_n,         \* the N of the script
    d_pre,       \* free_blocks when the script started
    d_made,      \* blocks that existed when the script started
    d_ptrs1,     \* what the N allocs returned, in order
    d_freed,     \* which of them were passed to mem_pool_free, and the last one
    d_ptrs2,     \* what the allocs after the frees returned, in order
    d_warm,      \* calls the caller made before the script
    \* ---- one obj_pool_t and its callers (SpecObjPool)
    op_cap,      \* pool->capacity
    op_grow,     \* pool->grow_size
    op_list,     \* pool->free_list[0 .. count): the free objects
    op_issued,   \* the objects callers hold
    op_made,     \* objects the allocator has supplied to the pool
    op_gone,     \* objects released to the allocator
    op_last,     \* the last call: its result and the pool before it
    op_alloc,    \* pool->allocated_objects
    op_free,     \* pool->free_objects
    \* ---- one vector_t shared by threads (SpecVector)
    v_ts,        \* vector->thread_safe
    v_lock,      \* vector->lock: the thread holding it, or 0
    v_base,      \* names the address vector->data
    v_cap,       \* vector->capacity
    v_size,      \* vector->size
    v_slots,     \* v_slots[i]: the element at data + i
    v_pc,        \* v_pc[t]: where thread t is inside its call
    v_left,      \* v_left[t]: calls thread t has still to make
    v_arg,       \* v_arg[t]: the argument, then the result, of t's call
    v_ok,        \* v_ok[t]: values whose push by t returned CSTL_OK
    v_role,      \* what the threads call: "push" or "mixed"
    \* ---- two iterators over vectors (SpecIter)
    i_size,      \* the size of the vectors
    i_it,        \* i_it[k]: iterator k
    i_pos,       \* i_pos[k]: the logical position iterator k stands at
    \* ---- one vector or list, its iterators and their clones (SpecCursor)
    c_kind,      \* "vector" or "list": the container the iterators are over
    c_size,      \* vector->size, list->size
    c_head,      \* list->head
    c_tail,      \* list->tail
    c_mem,       \* c_mem[a]: the list_node_t at address a
    c_live,      \* addresses of the nodes allocated and not freed
    c_obj,       \* c_obj[p]: the iterator object at address p
    c_ref,       \* c_ref[k]: the iterator_t* the caller's variable k holds
    c_last,      \* the last call: its result and the iterators before it
    \* ---- one vector and the calls of a single caller (SpecVecSeq)
    q_cap,       \* vector->capacity
    q_size,      \* vector->size
    q_pool,      \* vector->mem_pool: NULL or the memory pool attached
    q_last,      \* the last call: its result and where its storage came from
    \* ---- two lists with thread safety on and the threads merging them (SpecListMerge)
    lm_lock,     \* lm_lock[l]: the thread holding the mutex of list l, 0 when free
    lm_size,     \* lm_size[l]: list->size
    lm_arg,      \* lm_arg[t]: the lists thread t passes as list1 and list2
    lm_pc,       \* lm_pc[t]: where thread t is inside list_merge
    \* ---- the range algorithms on a vector (SpecReverse, SpecPermute, SpecStartsWith, SpecPartition)
    a_pc,        \* "ready", "done", "crashed" or "hung"
    a_orig,      \* the elements of the vector before the first call
    a_vec,       \* the elements of the vector now
    a_range,     \* <<lo, hi>>: begin and end stand lo and hi steps after vector_begin
    a_range2,    \* the same for begin2 and end2 of algo_starts_with
    a_pred,      \* the keys of the elements for which the predicate holds
    a_ub,        \* how the build treats a freed iterator: "stale" or "abort"
    a_last,      \* the last call: its name, return code, output and the vector before it
    a_calls,     \* the number of calls made
    \* ---- a container whose thread safety is switched on and off while threads use it (SpecSwitch)
    ts_flag,     \* vector->thread_safe (list->thread_safe)
    ts_mutex,    \* vector->lock: -1 not initialised or destroyed, 0 free, else its holder
    ts_pc,       \* ts_pc[t]: where thread t is inside its call
    ts_op,       \* ts_op[t]: the operation thread t is in
    ts_own,      \* ts_own[t]: mutex_lock calls of t that no mutex_unlock of t has matched
    ts_left,     \* ts_left[t]: calls thread t has still to make
    ts_stray,    \* the operations in which a mutex_unlock had no matching mutex_lock
    ts_kept,     \* the operations that returned with a mutex_lock not yet matched
    \* ---- two lists, their nodes and the node pool they may borrow (SpecList, SpecListPool)
    ls_mem,      \* ls_mem[a]: the list_node_t at address a and where it came from
    ls_list,     \* ls_list[l]: head, tail, size and node_pool of list l
    ls_released, \* ghost: <<taken from, released to>> of the nodes destroyed
    ls_pc,       \* the last call made, or "crashed": a release ended the process
    \* ---- a thread calling mem_pool_get_stats on the pool (SpecPoolStats)
    st_pc,       \* where the thread is inside mem_pool_get_stats
    st_out,      \* *allocated_blocks and *free_blocks as the call left them
    \* ---- the reader-writer lock of common.c, Windows code path (SpecRwLock)
    rw_lock,     \* the thread inside the critical section rwlock->lock, or 0
    rw_readers,  \* rwlock->readers
    rw_writers,  \* rwlock->writers
    rw_event,    \* whether rwlock->write_event (manual reset) is signaled
    rw_pc        \* where each thread is in its call, or what it holds

sortVars == <<s_pc, s_orig, s_algo, s_fail, s_call, s_null, s_vec, s_made,
              s_rc, s_deep, s_list>>
poolVars == <<mp_grow, mp_cap, mp_head, mp_next, mp_free, mp_alloc, mp_lock,
              mp_pc, mp_block, mp_held, mp_burst, mp_seen>>
drvVars == <<d_phase, d_n, d_pre, d_made, d_ptrs1, d_freed, d_ptrs2, d_warm>>
objVars == <<op_cap, op_grow, op_list, op_issued, op_made, op_gone, op_last,
             op_alloc, op_free>>
vecVars == <<v_ts, v_lock, v_base, v_cap, v_size, v_slots, v_pc, v_left,
             v_arg, v_ok, v_role>>
iterVars == <<i_size, i_it, i_pos>>
curVars == <<c_kind, c_size, c_head, c_tail, c_mem, c_live, c_obj, c_ref,
             c_last>>
vecSeqVars == <<q_cap, q_size, q_pool, q_last>>
mergeVars == <<lm_lock, lm_size, lm_arg, lm_pc>>
algoVars == <<a_pc, a_orig, a_vec, a_range, a_range2, a_pred, a_ub, a_last,
              a_calls>>
switchVars == <<ts_flag, ts_mutex, ts_pc, ts_op, ts_own, ts_left, ts_stray,
                ts_kept>>
listVars == <<ls_mem, ls_list, ls_released, ls_pc>>
statsVars == <<st_pc, st_out>>
rwVars == <<rw_lock, rw_readers, rw_writers, rw_event, rw_pc>>

vars == <<sortVars, poolVars, drvVars, objVars, vecVars, iterVars, curVars,
          vecSeqVars, mergeVars, algoVars, switchVars, listVars, statsVars,
          rwVars>>

\* What each part of the library leaves alone.
notSortVars == <<poolVars, drvVars, objVars, vecVars, iterVars, curVars,
                 vecSeqVars, mergeVars, algoVars, switchVars, listVars,
                 statsVars, rwVars>>
notPoolVars == <<sortVars, objVars, vecVars, iterVars, curVars, vecSeqVars,
                 mergeVars, algoVars, switchVars, listVars, statsVars,
                 rwVars>>
notObjVars == <<sortVars, poolVars, drvVars, vecVars, iterVars, curVars,
                vecSeqVars, mergeVars, algoVars, switchVars, listVars,
                statsVars, rwVars>>
notVecVars == <<sortVars, poolVars, drvVars, objVars, iterVars, curVars,
                vecSeqVars, mergeVars, algoVars, switchVars, listVars,
                statsVars, rwVars>>
notIterVars == <<sortVars, poolVars, drvVars, objVars, vecVars, curVars,
                 vecSeqVars, mergeVars, algoVars, switchVars, listVars,
                 statsVars, rwVars>>
notCurVars == <<sortVars, poolVars, drvVars, objVars, vecVars, iterVars,
                vecSeqVars, mergeVars, algoVars, switchVars, listVars,
                statsVars, rwVars>>
notVecSeqVars == <<sortVars, poolVars, drvVars, objVars, vecVars, iterVars,
                   curVars, mergeVars, algoVars, switchVars, listVars,
                   statsVars, rwVars>>
notMergeVars == <<sortVars, poolVars, drvVars, objVars, vecVars, iterVars,
                  curVars, vecSeqVars, algoVars, switchVars, listVars,
                  statsVars, rwVars>>
notAlgoVars == <<sortVars, poolVars, drvVars, objVars, vecVars, iterVars,
                 curVars, vecSeqVars, mergeVars, switchVars, listVars,
                 statsVars, rwVars>>
notSwitchVars == <<sortVars, poolVars, drvVars, objVars, vecVars, iterVars,
                   curVars, vecSeqVars, mergeVars, algoVars, listVars,
                   statsVars, rwVars>>
notListVars == <<sortVars, poolVars, drvVars, objVars, vecVars, iterVars,
                 curVars, vecSeqVars, mergeVars, algoVars, switchVars,
                 statsVars, rwVars>>
notStatsVars == <<sortVars, poolVars, drvVars, objVars, vecVars, iterVars,
                  curVars, vecSeqVars, mergeVars, algoVars, switchVars,
                  listVars, rwVars>>
notRwVars == <<sortVars, poolVars, drvVars, objVars, vecVars, iterVars,
               curVars, vecSeqVars, mergeVars, algoVars, switchVars, listVars,
               statsVars>>

-----------------------------------------------------------------------------
(* Bounds of the model *)
MaxLen == 4      \* longest vector that is sorted
MaxKey == 2      \* keys are 0 .. MaxKey
MaxFail == 1     \* s_fail ranges over 0 .. MaxFail
NThreads == 2    \* threads calling the pool at once
MaxGrowConc == 2 \* largest grow_size of the pool the threads share
MaxBlocksConc == 2  \* blocks the allocator supplies to that pool
MaxGrowSeq == 4  \* largest grow_size of the pool of the single caller
MaxBlocksSeq == 5   \* blocks the allocator supplies to that pool
MaxN == 4        \* largest N of the caller's script
MaxWarm == 2     \* calls the caller makes before the script
MaxInitial == 2  \* largest initial_size of the object pool
MaxGrowObj == 2  \* largest grow_size of the object pool
MaxObjs == 4     \* objects the allocator supplies to the object pool
MaxCap == 6      \* largest pointer array the allocator supplies to it
MaxCalls == 2    \* pushes each worker makes on the shared vector
MaxMixed == 1    \* calls each thread makes when the calls are mixed
MaxInitCap == 1  \* largest initial capacity of the shared vector
MaxOthers == 1   \* objects a caller hands to the object pool that are not the pool's
MaxNodes == 2    \* most elements of the container the cursors are over
MaxDepth == 5    \* frames of a sort the stack holds below the outermost one
MaxVecSize == 34 \* largest size, and largest argument, of the single caller's vector

-----------------------------------------------------------------------------
(* error_code_t, sort_algorithm_t *)
CSTL_OK == 0
CSTL_ERROR_NULL_POINTER == 1
CSTL_ERROR_OUT_OF_MEMORY == 2
CSTL_ERROR_INVALID_INDEX == 3
CSTL_ERROR_CONTAINER_EMPTY == 4
CSTL_ERROR_ITERATOR_END == 6
CSTL_ERROR_INVALID_ARGUMENT == 9

SORT_QUICK == 0
SORT_MERGE == 1
SORT_HEAP == 2
SORT_INSERT == 3

NULL == 0

-----------------------------------------------------------------------------
(* Memory of one vector.  An element occupies one address unit            *)
(* (element_size = 1); the data array of vector c starts at vector_data(c) *)
(* and element i lives at vector_data(c) + i.                              *)
vector_data(c) == c * 100

\* The vector that is sorted.
VEC == 1

\* An element is <<key, tag>>: the comparator reads the key only, the tag
\* tells apart elements that compare equal.
compare_int(a, b) == (IF a[1] > b[1] THEN 1 ELSE 0) - (IF a[1] < b[1] THEN 1 ELSE 0)

-----------------------------------------------------------------------------
(* The vector iterator: <<container, index, current>> as a record.  size   *)
(* is vector->size at the time of the call.                                *)

vector_iterator_next(size, it) ==
    IF it.index >= size
    THEN [rc |-> CSTL_ERROR_ITERATOR_END, it |-> it]
    ELSE [rc |-> CSTL_OK,
          it |-> [it EXCEPT !.index = @ + 1,
                            !.current = vector_data(it.container) + it.index + 1]]

vector_iterator_prev(size, it) ==
    IF it.index = 0
    THEN [rc |-> CSTL_ERROR_ITERATOR_END, it |-> it]
    ELSE [rc |-> CSTL_OK,
          it |-> [it EXCEPT !.index = @ - 1,
                            !.current = vector_data(it.container) + it.index - 1]]

vector_iterator_get(size, it) ==
    IF it.index >= size
    THEN [rc |-> CSTL_ERROR_ITERATOR_END, data |-> NULL]
    ELSE [rc |-> CSTL_OK, data |-> it.current]

\* vector_iterator_valid reading current instead of index and size.
vector_iterator_valid_by_current(size, it) == it.current # NULL

vector_iterator_valid(size, it) == it.index < size

vector_iterator_clone(it) == it

vector_iterator_create(c, size) ==
    [container |-> c, index |-> 0,
     current |-> IF size > 0 THEN vector_data(c) ELSE NULL]

vector_begin(c, size) == vector_iterator_create(c, size)

\* vector_end with current left at the end of the array.
vector_end_at_data(c, size) ==
    [vector_iterator_create(c, size) EXCEPT !.index = size,
                                            !.current = vector_data(c) + size]

vector_end(c, size) ==
    [vector_iterator_create(c, size) EXCEPT !.index = size, !.current = NULL]

iterator_equal(iter1, iter2) ==
    iter1.container = iter2.container /\ iter1.current = iter2.current

-----------------------------------------------------------------------------
(* The list iterator: <<container, current, node>> as a record.  mem[a] is *)
(* the list_node_t at address a; node n of a list stands at NodeAt(n).     *)

NodeAt(n) == n * 10

\* node->data = (char*)node + sizeof(list_node_t): past prev, next, data.
node_data(node) == node + 3

list_iterator_next(mem, it) ==
    IF it.node = NULL
    THEN [rc |-> CSTL_ERROR_ITERATOR_END, it |-> it]
    ELSE LET node == mem[it.node].next
         IN  [rc |-> CSTL_OK,
              it |-> [it EXCEPT !.node = node,
                                !.current = IF node # NULL THEN mem[node].data
                                                           ELSE NULL]]

list_iterator_prev(mem, it) ==
    IF it.node = NULL
    THEN [rc |-> CSTL_ERROR_ITERATOR_END, it |-> it]
    ELSE LET node == mem[it.node].prev
         IN  [rc |-> CSTL_OK,
              it |-> [it EXCEPT !.node = node,
                                !.current = IF node # NULL THEN mem[node].data
                                                           ELSE NULL]]

list_iterator_get(mem, it) ==
    IF it.node = NULL
    THEN [rc |-> CSTL_ERROR_ITERATOR_END, data |-> NULL]
    ELSE [rc |-> CSTL_OK, data |-> mem[it.node].data]

list_iterator_valid(it) == it.node # NULL

list_iterator_create(c, head, mem) ==
    [container |-> c, node |-> head,
     current |-> IF head # NULL THEN mem[head].data ELSE NULL]

list_begin(c, head, mem) == list_iterator_create(c, head, mem)

list_end(c, head, mem) ==
    [list_iterator_create(c, head, mem) EXCEPT !.node = NULL, !.current = NULL]

\* The default path of iterator_clone: a block of sizeof(iterator_t) that
\* receives the fields of the base iterator_t.  The node field of a list
\* iterator lies past that block; junk is what a read of it yields.
iterator_clone_default(it, junk) == [it EXCEPT !.node = junk]

\* The nodes of a list of `size` elements appended by list_push_back: node
\* n stands at NodeAt(n) and is linked to its neighbours.
list_nodes(size) ==
    [a \in {NodeAt(n) : n \in 1 .. size} |->
        [prev |-> IF a = NodeAt(1) THEN NULL ELSE a - NodeAt(1),
         next |-> IF a = NodeAt(size) THEN NULL ELSE a + NodeAt(1),
         data |-> node_data(a)]]

list_head(size) == IF size = 0 THEN NULL ELSE NodeAt(1)

-----------------------------------------------------------------------------
(* The calls an algorithm makes through iterator.c, which dispatches       *)
(* through the function pointers of the iterator: a record with a node     *)
(* field carries the list functions, the others the vector functions.      *)
(* m is the memory the call works on: m.v the elements of the container    *)
(* and m.mem the nodes of a list.                                          *)

is_list(it) == "node" \in DOMAIN it

\* The iterator after iterator_next / iterator_prev (the return code dropped,
\* as the algorithms drop it).
Next_(m, it) ==
    IF is_list(it) THEN list_iterator_next(m.mem, it).it
                   ELSE vector_iterator_next(Len(m.v), it).it
Prev_(m, it) ==
    IF is_list(it) THEN list_iterator_prev(m.mem, it).it
                   ELSE vector_iterator_prev(Len(m.v), it).it

\* iterator_valid, and the pointer iterator_get stores (NULL when it fails).
Valid_(m, it) ==
    IF is_list(it) THEN list_iterator_valid(it)
                   ELSE vector_iterator_valid(Len(m.v), it)
Data_(m, it) ==
    IF is_list(it) THEN list_iterator_get(m.mem, it).data
                   ELSE vector_iterator_get(Len(m.v), it).data

-----------------------------------------------------------------------------
(* The state a sort works on: the elements v of the container, in order;  *)
(* the number n of malloc calls made so far and failAt, the malloc call    *)
(* that returns NULL (0: none); mem, the nodes of the list when the        *)
(* container is one; junk, the word a read finds past the block of a       *)
(* cloned base iterator; depth, the number of sort frames on the stack;    *)
(* fault, set when the call touches memory it cannot and the process is    *)
(* ended by the system, after which nothing it does counts.                *)

Size(m) == Len(m.v)

Max(a, b) == IF a >= b THEN a ELSE b

\* malloc: counts the call; it fails when it is call number failAt.
malloc_fails(m) == m.failAt = m.n + 1
malloc_done(m) == [m EXCEPT !.n = @ + 1]

\* iterator_clone of the iterator `it`.
Clone_(m, it) ==
    IF is_list(it) THEN iterator_clone_default(it, m.junk)
                   ELSE vector_iterator_clone(it)

\* The place in v of the element at address p: an element of the vector
\* or the data of a list node.
Slot(p) ==
    IF p >= vector_data(VEC) THEN p - vector_data(VEC) + 1 ELSE p \div NodeAt(1)

Fault(m) == [m EXCEPT !.fault = TRUE]

\* A sort function calling itself: one more frame on the stack, and the
\* frame gone when the inner call is back; deep records the most frames
\* the call had at once.  The stack holds MaxDepth frames below the
\* outermost one; a call that needs one more ends the process.
Enter(m) == [m EXCEPT !.depth = @ + 1, !.deep = Max(@, m.depth + 1)]
Back(m, inner) == [inner EXCEPT !.depth = m.depth]
Gone(m) == m.fault \/ m.depth > MaxDepth

\* The element stored at address p, and the memory after *p = x.  A write
\* through NULL ends the process.
Load(m, p) == m.v[Slot(p)]
Store(m, p, x) ==
    IF p = NULL THEN Fault(m) ELSE [m EXCEPT !.v[Slot(p)] = x]

\* The element an iterator dereferences to (iterator_get, then a read).
Get(m, it) == Load(m, Data_(m, it))

\* algo_swap without its temporary: *a = *b only.
algo_swap_no_temp(m, a, b) ==
    IF a = NULL \/ b = NULL THEN m
    ELSE IF malloc_fails(m) THEN malloc_done(m)
    ELSE Store(malloc_done(m), a, Load(m, b))

algo_swap(m, a, b) ==
    IF a = NULL \/ b = NULL THEN m
    ELSE IF malloc_fails(m) THEN malloc_done(m)
    ELSE LET temp == Load(m, a)
         IN  Store(Store(malloc_done(m), a, Load(m, b)), b, temp)

\* while (iterator_valid(temp) && !iterator_equal(temp, end)) { size++; next }
RECURSIVE range_size(_, _, _)
range_size(m, temp, end) ==
    IF Valid_(m, temp) /\ ~iterator_equal(temp, end)
    THEN 1 + range_size(m, Next_(m, temp), end)
    ELSE 0

\* The iterator `it` after k calls of iterator_next.
RECURSIVE advance(_, _, _)
advance(m, it, k) ==
    IF k = 0 THEN it ELSE advance(m, Next_(m, it), k - 1)

\* get_element_at_index that counts index from the first element of the
\* vector instead of from begin.
get_element_at_index_of_vector(m, begin, index) ==
    Data_(m, advance(m, vector_begin(VEC, Size(m)), index))

get_element_at_index(m, begin, index) ==
    Data_(m, advance(m, Clone_(m, begin), index))

-----------------------------------------------------------------------------
(* Quicksort: quick_sort_partition, quick_sort_impl *)

\* The loop with compare(current, pivot_value) < 0 for its test.
RECURSIVE partition_loop_strict(_, _, _, _, _)
partition_loop_strict(m, i, j, last, pivot_value) ==
    IF Valid_(m, j) /\ ~iterator_equal(j, last)
    THEN LET current == Data_(m, j)
         IN  IF compare_int(Load(m, current), pivot_value) < 0
             THEN partition_loop_strict(
                      algo_swap(m, Data_(m, i), current),
                      Next_(m, i), Next_(m, j), last, pivot_value)
             ELSE partition_loop_strict(m, i, Next_(m, j), last, pivot_value)
    ELSE [m |-> m, i |-> i]

\* The loop of quick_sort_partition over j in [begin, last).
RECURSIVE partition_loop(_, _, _, _, _)
partition_loop(m, i, j, last, pivot_value) ==
    IF Valid_(m, j) /\ ~iterator_equal(j, last)
    THEN LET current == Data_(m, j)
         IN  IF compare_int(Load(m, current), pivot_value) <= 0
             THEN partition_loop(
                      algo_swap(m, Data_(m, i), current),
                      Next_(m, i), Next_(m, j), last, pivot_value)
             ELSE partition_loop(m, i, Next_(m, j), last, pivot_value)
    ELSE [m |-> m, i |-> i]

\* Returns the memory, the return code, and *pivot (set: whether it was
\* assigned).
quick_sort_partition(m, begin, end) ==
    LET size == Size(m)
        temp == Next_(m, Clone_(m, begin))
    IN  IF iterator_equal(temp, end) \/ ~Valid_(m, temp)
        THEN [m |-> m, rc |-> CSTL_OK, set |-> TRUE, pivot |-> Clone_(m, begin)]
        ELSE LET last == Prev_(m, Clone_(m, end))
                 pivot_value_ptr == Data_(m, last)
             IN  IF malloc_fails(m)
                 THEN [m |-> malloc_done(m), rc |-> CSTL_ERROR_OUT_OF_MEMORY,
                       set |-> FALSE, pivot |-> begin]
                 ELSE IF pivot_value_ptr = NULL
                 \* memcpy(pivot_value, pivot_value_ptr, element_size)
                 THEN [m |-> Fault(malloc_done(m)), rc |-> CSTL_OK,
                       set |-> FALSE, pivot |-> begin]
                 ELSE LET pivot_value == Load(m, pivot_value_ptr)
                          r == partition_loop(malloc_done(m), Clone_(m, begin),
                                              Clone_(m, begin), last, pivot_value)
                      IN  IF ~Valid_(m, r.i)
                          THEN [m |-> r.m, rc |-> CSTL_ERROR_ITERATOR_END,
                                set |-> FALSE, pivot |-> begin]
                          ELSE [m |-> algo_swap(r.m,
                                          Data_(m, r.i),
                                          pivot_value_ptr),
                                rc |-> CSTL_OK, set |-> TRUE,
                                pivot |-> Clone_(m, r.i)]

RECURSIVE quick_sort_impl(_, _, _)
quick_sort_impl(m, begin, end) ==
    LET size == Size(m)
    IN  IF Gone(m) THEN [m |-> Fault(m), rc |-> CSTL_OK]
        ELSE IF range_size(m, Clone_(m, begin), end) <= 1
        THEN [m |-> m, rc |-> CSTL_OK]
        ELSE LET p == quick_sort_partition(m, begin, end)
             IN  IF p.rc # CSTL_OK THEN [m |-> p.m, rc |-> p.rc]
                 ELSE IF ~p.set THEN [m |-> p.m, rc |-> CSTL_OK]
                 ELSE LET left_size == range_size(m, Clone_(m, begin), p.pivot)
                          right_begin == Next_(m, Clone_(m, p.pivot))
                          right_size == range_size(m, right_begin, end)
                          \* the results of the recursive calls are dropped
                          mL == IF left_size > 0
                                THEN Back(m, quick_sort_impl(
                                         Enter(p.m), Clone_(m, begin),
                                         Clone_(m, p.pivot)).m)
                                ELSE p.m
                          mR == IF right_size > 0
                                THEN Back(m, quick_sort_impl(
                                         Enter(mL), right_begin,
                                         Clone_(m, end)).m)
                                ELSE mL
                      IN  [m |-> mR, rc |-> CSTL_OK]

-----------------------------------------------------------------------------
(* Merge sort: temp_buffer_create, merge_sort_merge, merge_sort_impl *)

\* Two mallocs (the struct, then its data); NULL when either fails.
temp_buffer_create(m) ==
    IF malloc_fails(m) THEN [m |-> malloc_done(m), ok |-> FALSE]
    ELSE IF malloc_fails(malloc_done(m))
         THEN [m |-> malloc_done(malloc_done(m)), ok |-> FALSE]
         ELSE [m |-> malloc_done(malloc_done(m)), ok |-> TRUE]

\* The elements copied into a buffer by the loop from iter up to stop.
RECURSIVE copy_to_buffer(_, _, _)
copy_to_buffer(m, iter, stop) ==
    IF Valid_(m, iter) /\ ~iterator_equal(iter, stop)
    THEN <<Get(m, iter)>> \o copy_to_buffer(m, Next_(m, iter), stop)
    ELSE <<>>

\* The three merge loops; left_index and right_index count from 0.
RECURSIVE merge_loop(_, _, _, _, _, _)
merge_loop(m, iter, left, right, left_index, right_index) ==
    LET target == Data_(m, iter)
    IN  IF left_index < Len(left) /\ right_index < Len(right)
        THEN IF compare_int(left[left_index + 1], right[right_index + 1]) <= 0
             THEN merge_loop(Store(m, target, left[left_index + 1]),
                             Next_(m, iter), left, right,
                             left_index + 1, right_index)
             ELSE merge_loop(Store(m, target, right[right_index + 1]),
                             Next_(m, iter), left, right,
                             left_index, right_index + 1)
        ELSE IF left_index < Len(left)
        THEN merge_loop(Store(m, target, left[left_index + 1]),
                        Next_(m, iter), left, right,
                        left_index + 1, right_index)
        ELSE IF right_index < Len(right)
        THEN merge_loop(Store(m, target, right[right_index + 1]),
                        Next_(m, iter), left, right,
                        left_index, right_index + 1)
        ELSE m

merge_sort_merge(m, begin, mid, end) ==
    LET lb == temp_buffer_create(m)
    IN  IF ~lb.ok THEN [m |-> lb.m, rc |-> CSTL_ERROR_OUT_OF_MEMORY]
        ELSE LET rb == temp_buffer_create(lb.m)
             IN  IF ~rb.ok THEN [m |-> rb.m, rc |-> CSTL_ERROR_OUT_OF_MEMORY]
                 ELSE [m |-> merge_loop(rb.m, Clone_(m, begin),
                                        copy_to_buffer(rb.m, Clone_(m, begin), mid),
                                        copy_to_buffer(rb.m, Clone_(m, mid), end),
                                        0, 0),
                       rc |-> CSTL_OK]

\* advance_valid that leaves the iterator where it is: mid = begin.
advance_valid_none(size, it, k) == it

\* for (i = 0; i < mid_size; i++) if (iterator_valid(mid)) iterator_next(mid);
RECURSIVE advance_valid(_, _, _)
advance_valid(m, it, k) ==
    IF k = 0 THEN it
    ELSE advance_valid(m,
                       IF Valid_(m, it) THEN Next_(m, it) ELSE it,
                       k - 1)

RECURSIVE merge_sort_impl(_, _, _)
merge_sort_impl(m, begin, end) ==
    LET size == range_size(m, Clone_(m, begin), end)
    IN  IF Gone(m) THEN [m |-> Fault(m), rc |-> CSTL_OK]
        ELSE IF size <= 1
        THEN [m |-> m, rc |-> CSTL_OK]
        ELSE LET mid == advance_valid(m, Clone_(m, begin), size \div 2)
                 \* the results of the three calls are dropped
                 m1 == Back(m, merge_sort_impl(Enter(m), Clone_(m, begin),
                                               Clone_(m, mid)).m)
                 m2 == Back(m, merge_sort_impl(Enter(m1), Clone_(m, mid),
                                               Clone_(m, end)).m)
                 m3 == merge_sort_merge(m2, begin, mid, end).m
             IN  [m |-> m3, rc |-> CSTL_OK]

-----------------------------------------------------------------------------
(* Heap sort: heap_sort_sift_down, heap_sort_impl *)

RECURSIVE heap_sort_sift_down(_, _, _, _)
heap_sort_sift_down(m, begin, heap_size, root_index) ==
    LET left == 2 * root_index + 1
        right == 2 * root_index + 2
        largest1 ==
            IF left < heap_size
               /\ compare_int(Load(m, get_element_at_index(m, begin, left)),
                              Load(m, get_element_at_index(m, begin, root_index))) > 0
            THEN left ELSE root_index
        largest ==
            IF right < heap_size
               /\ compare_int(Load(m, get_element_at_index(m, begin, right)),
                              Load(m, get_element_at_index(m, begin, largest1))) > 0
            THEN right ELSE largest1
    IN  IF largest # root_index
        THEN heap_sort_sift_down(
                 algo_swap(m, get_element_at_index(m, begin, root_index),
                              get_element_at_index(m, begin, largest)),
                 begin, heap_size, largest)
        ELSE m

\* for (int i = (int)size / 2 - 1; i >= 0; i--) sift_down(begin, size, i)
RECURSIVE heap_build(_, _, _, _)
heap_build(m, begin, size, i) ==
    IF i >= 0
    THEN heap_build(heap_sort_sift_down(m, begin, size, i), begin, size, i - 1)
    ELSE m

\* for (size_t i = size - 1; i > 0; i--) { swap(root, last); sift_down(begin, i, 0) }
RECURSIVE heap_extract(_, _, _)
heap_extract(m, begin, i) ==
    IF i > 0
    THEN heap_extract(
             heap_sort_sift_down(
                 algo_swap(m, get_element_at_index(m, begin, 0),
                              get_element_at_index(m, begin, i)),
                 begin, i, 0),
             begin, i - 1)
    ELSE m

heap_sort_impl(m, begin, end) ==
    LET size == range_size(m, Clone_(m, begin), end)
    IN  IF size <= 1
        THEN [m |-> m, rc |-> CSTL_OK]
        ELSE [m |-> heap_extract(heap_build(m, begin, size, (size \div 2) - 1),
                                 begin, size - 1),
              rc |-> CSTL_OK]

-----------------------------------------------------------------------------
(* Insertion sort: insert_sort_impl *)

\* j_next = clone(j); next(j_next); if (valid(j_next)) *j_next = x;
store_after(m, j, x) ==
    LET j_next == Next_(m, Clone_(m, j))
    IN  IF Valid_(m, j_next)
        THEN Store(m, Data_(m, j_next), x)
        ELSE m

\* The inner loop shifting on compare >= 0 instead of > 0.
RECURSIVE insert_shift_ties(_, _, _, _)
insert_shift_ties(m, j, begin, key) ==
    IF Valid_(m, j) /\ ~iterator_equal(j, begin)
    THEN IF compare_int(Get(m, j), key) >= 0
         THEN insert_shift_ties(store_after(m, j, Get(m, j)), Prev_(m, j),
                                begin, key)
         ELSE [m |-> m, j |-> j]
    ELSE [m |-> m, j |-> j]

\* The inner loop: shifts the elements greater than key one place right
\* while j has not reached begin.
RECURSIVE insert_shift(_, _, _, _)
insert_shift(m, j, begin, key) ==
    IF Valid_(m, j) /\ ~iterator_equal(j, begin)
    THEN IF compare_int(Get(m, j), key) > 0
         THEN insert_shift(store_after(m, j, Get(m, j)), Prev_(m, j),
                           begin, key)
         ELSE [m |-> m, j |-> j]
    ELSE [m |-> m, j |-> j]

\* The code after the inner loop, which places key.
insert_place(m, j, begin, key) ==
    LET first_element == Data_(m, begin)
    IN  IF Valid_(m, j) /\ ~iterator_equal(j, begin)
        THEN IF compare_int(Get(m, j), key) > 0
             THEN Store(store_after(m, j, Get(m, j)), first_element, key)
             ELSE store_after(m, j, key)
        ELSE IF Valid_(m, j)
        THEN IF compare_int(Get(m, j), key) > 0
             THEN Store(store_after(m, j, Get(m, j)), first_element, key)
             ELSE store_after(m, j, key)
        ELSE Store(m, first_element, key)

\* The outer loop over i in [begin + 1, end).
RECURSIVE insert_loop(_, _, _, _)
insert_loop(m, i, begin, end) ==
    IF Valid_(m, i) /\ ~iterator_equal(i, end)
    THEN IF malloc_fails(m)
         THEN [m |-> malloc_done(m), rc |-> CSTL_ERROR_OUT_OF_MEMORY]
         ELSE LET key == Get(m, i)
                  s == insert_shift(malloc_done(m),
                                    Prev_(m, Clone_(m, i)),
                                    begin, key)
              IN  insert_loop(insert_place(s.m, s.j, begin, key),
                              Next_(m, i), begin, end)
    ELSE [m |-> m, rc |-> CSTL_OK]

insert_sort_impl(m, begin, end) ==
    IF range_size(m, Clone_(m, begin), end) <= 1
    THEN [m |-> m, rc |-> CSTL_OK]
    ELSE insert_loop(m, Next_(m, Clone_(m, begin)), begin, end)

-----------------------------------------------------------------------------
(* algo_sort, algo_stable_sort *)

\* null names the arguments among begin, end and compare that are NULL.
\* algo_sort without the test of its pointer arguments.
algo_sort_unchecked(m, null, begin, end, algorithm) ==
    CASE algorithm = SORT_QUICK -> quick_sort_impl(m, begin, end)
      [] algorithm = SORT_MERGE -> merge_sort_impl(m, begin, end)
      [] algorithm = SORT_HEAP -> heap_sort_impl(m, begin, end)
      [] algorithm = SORT_INSERT -> insert_sort_impl(m, begin, end)
      [] OTHER -> [m |-> m, rc |-> CSTL_ERROR_INVALID_ARGUMENT]

algo_sort(m, null, begin, end, algorithm) ==
    IF null # {}
    THEN [m |-> m, rc |-> CSTL_ERROR_NULL_POINTER]
    ELSE CASE algorithm = SORT_QUICK -> quick_sort_impl(m, begin, end)
           [] algorithm = SORT_MERGE -> merge_sort_impl(m, begin, end)
           [] algorithm = SORT_HEAP -> heap_sort_impl(m, begin, end)
           [] algorithm = SORT_INSERT -> insert_sort_impl(m, begin, end)
           [] OTHER -> [m |-> m, rc |-> CSTL_ERROR_INVALID_ARGUMENT]

algo_stable_sort(m, null, begin, end) == algo_sort(m, null, begin, end, SORT_MERGE)

-----------------------------------------------------------------------------
(* SpecSort: one call of algo_sort or algo_stable_sort over                *)
(* [vector_begin, vector_end) of a vector of at most MaxLen elements.      *)

Keys == 0 .. MaxKey

\* The vectors: element i carries its key and the tag i.
Tagged(keys) == [i \in 1 .. Len(keys) |-> <<keys[i], i>>]
SortInputs == UNION {{Tagged(k) : k \in [1 .. n -> Keys]} : n \in 0 .. MaxLen}

\* The algorithm ids passed: the four of sort_algorithm_t and one unknown id.
AlgoIds == {SORT_QUICK, SORT_MERGE, SORT_HEAP, SORT_INSERT, SORT_INSERT + 1}

\* The variables of the other parts of the library, at rest.
PoolIdle ==
    /\ mp_grow = 1 /\ mp_cap = 0 /\ mp_head = NULL /\ mp_next = <<>>
    /\ mp_free = 0 /\ mp_alloc = 0 /\ mp_lock = 0
    /\ mp_pc = <<>> /\ mp_block = <<>> /\ mp_held = <<>> /\ mp_burst = <<>>
    /\ mp_seen = {}

\* d_freed before any mem_pool_free of the script: done holds the places in
\* d_ptrs1 of the pointers freed, last is the last non-null pointer freed.
NoneFreed == [done |-> {}, last |-> NULL]

DriverIdle ==
    /\ d_phase = "none" /\ d_n = 0 /\ d_pre = 0 /\ d_made = 0
    /\ d_ptrs1 = <<>> /\ d_freed = NoneFreed /\ d_ptrs2 = <<>> /\ d_warm = 0

SortIdle ==
    /\ s_pc = "none" /\ s_orig = <<>> /\ s_algo = 0 /\ s_fail = 0
    /\ s_call = "none" /\ s_null = {} /\ s_vec = <<>> /\ s_made = 0
    /\ s_rc = CSTL_OK /\ s_deep = 0 /\ s_list = <<>>

ObjIdle ==
    /\ op_cap = 0 /\ op_grow = 0 /\ op_list = <<>> /\ op_issued = {}
    /\ op_made = 0 /\ op_gone = {} /\ op_last = <<>>
    /\ op_alloc = 0 /\ op_free = 0

VecIdle ==
    /\ v_ts = 0 /\ v_lock = 0 /\ v_base = 0 /\ v_cap = 0 /\ v_size = 0
    /\ v_slots = <<>> /\ v_pc = <<>> /\ v_left = <<>> /\ v_arg = <<>>
    /\ v_ok = <<>> /\ v_role = "none"

IterIdle ==
    /\ i_size = 0 /\ i_it = <<>> /\ i_pos = <<>>

CurIdle ==
    /\ c_kind = "none" /\ c_size = 0 /\ c_head = NULL /\ c_tail = NULL
    /\ c_mem = <<>> /\ c_live = {} /\ c_obj = <<>> /\ c_ref = <<>>
    /\ c_last = <<>>

VecSeqIdle ==
    /\ q_cap = 0 /\ q_size = 0 /\ q_pool = 0 /\ q_last = <<>>

MergeIdle ==
    /\ lm_lock = <<>> /\ lm_size = <<>> /\ lm_arg = <<>> /\ lm_pc = <<>>

AlgoIdle ==
    /\ a_pc = "idle" /\ a_orig = <<>> /\ a_vec = <<>> /\ a_range = <<>>
    /\ a_range2 = <<>> /\ a_pred = {} /\ a_ub = "" /\ a_last = <<>>
    /\ a_calls = 0

SwitchIdle ==
    /\ ts_flag = 0 /\ ts_mutex = 0 /\ ts_pc = <<>> /\ ts_op = <<>>
    /\ ts_own = <<>> /\ ts_left = <<>> /\ ts_stray = {} /\ ts_kept = {}

ListIdle ==
    /\ ls_mem = <<>> /\ ls_list = <<>> /\ ls_released = {} /\ ls_pc = "none"

StatsIdle ==
    /\ st_pc = "idle" /\ st_out = <<>>

RwIdle ==
    /\ rw_lock = 0 /\ rw_readers = 0 /\ rw_writers = 0
    /\ rw_event = FALSE /\ rw_pc = <<>>

\* The parts of the library a specification does not use stay as they are.
OthersIdle(used) ==
    /\ "sort" \in used \/ SortIdle
    /\ "pool" \in used \/ PoolIdle
    /\ "driver" \in used \/ DriverIdle
    /\ "obj" \in used \/ ObjIdle
    /\ "vector" \in used \/ VecIdle
    /\ "iter" \in used \/ IterIdle
    /\ "cursor" \in used \/ CurIdle
    /\ "vecseq" \in used \/ VecSeqIdle
    /\ "merge" \in used \/ MergeIdle
    /\ "algo" \in used \/ AlgoIdle
    /\ "switch" \in used \/ SwitchIdle
    /\ "list" \in used \/ ListIdle
    /\ "stats" \in used \/ StatsIdle
    /\ "rw" \in used \/ RwIdle

SortInit ==
    /\ OthersIdle({"sort"})
    /\ s_pc = "ready"
    /\ s_orig \in SortInputs
    /\ s_vec = s_orig
    /\ s_algo \in AlgoIds
    /\ s_fail \in 0 .. MaxFail
    /\ s_call = "none"
    /\ s_null \in SUBSET {"begin", "end", "compare"}
    /\ s_made = 0
    /\ s_rc = CSTL_OK
    /\ s_deep = 0
    /\ s_list = <<>>

SortMem ==
    [v |-> s_vec, n |-> 0, failAt |-> s_fail, mem |-> <<>>, junk |-> NULL,
     fault |-> FALSE, depth |-> 0, deep |-> 0]

\* algo_sort(vector_begin(v), vector_end(v), compare_int, s_algo), with NULL
\* in the place of the arguments that s_null names.
SortCall ==
    /\ s_pc = "ready"
    /\ LET r == algo_sort(SortMem, s_null, vector_begin(VEC, Len(s_vec)),
                          vector_end(VEC, Len(s_vec)), s_algo)
       IN  /\ s_vec' = r.m.v
           /\ s_made' = r.m.n
           /\ s_rc' = r.rc
           /\ s_deep' = r.m.deep
           /\ s_pc' = IF r.m.fault THEN "crashed" ELSE "done"
    /\ s_call' = "algo_sort"
    /\ UNCHANGED <<s_orig, s_algo, s_fail, s_null, s_list, notSortVars>>

\* algo_stable_sort(vector_begin(v), vector_end(v), compare_int)
StableSortCall ==
    /\ s_pc = "ready"
    /\ LET r == algo_stable_sort(SortMem, s_null,
                                 vector_begin(VEC, Len(s_vec)),
                                 vector_end(VEC, Len(s_vec)))
       IN  /\ s_vec' = r.m.v
           /\ s_made' = r.m.n
           /\ s_rc' = r.rc
           /\ s_deep' = r.m.deep
           /\ s_pc' = IF r.m.fault THEN "crashed" ELSE "done"
    /\ s_call' = "algo_stable_sort"
    /\ UNCHANGED <<s_orig, s_algo, s_fail, s_null, s_list, notSortVars>>

SortNext == SortCall \/ StableSortCall

SpecSort == SortInit /\ [][SortNext]_vars

-----------------------------------------------------------------------------
(* SpecSortList: a vector and a doubly-linked list that hold the same      *)
(* elements, and one call of algo_sort with the same algorithm on each,    *)
(* over [vector_begin, vector_end) and over [list_begin, list_end).        *)

\* The list that is sorted.
LST == 2

\* The word a clone of a list iterator finds where its node field would
\* be: nothing, or the address of a node of the list.
SortJunk(size) == {NULL} \cup {NodeAt(n) : n \in 1 .. size}

ListSortInit ==
    /\ OthersIdle({"sort"})
    /\ s_pc = "ready"
    /\ s_orig \in SortInputs
    /\ s_vec = s_orig
    /\ s_algo \in AlgoIds
    /\ s_fail = 0
    /\ s_call = "none"
    /\ s_null = {}
    /\ s_made = 0
    /\ s_rc = CSTL_OK
    /\ s_deep = 0
    /\ \E junk \in SortJunk(Len(s_orig)) :
           s_list = [pc |-> "ready", v |-> s_orig, rc |-> CSTL_OK,
                     junk |-> junk]

\* algo_sort(list_begin(list), list_end(list), compare_int, s_algo)
ListSortCall ==
    /\ s_list.pc = "ready"
    /\ LET size == Len(s_list.v)
           r == algo_sort([SortMem EXCEPT !.v = s_list.v,
                                          !.mem = list_nodes(size),
                                          !.junk = s_list.junk],
                          s_null,
                          list_begin(LST, list_head(size), list_nodes(size)),
                          list_end(LST, list_head(size), list_nodes(size)),
                          s_algo)
       IN  s_list' = [s_list EXCEPT !.pc = IF r.m.fault THEN "crashed"
                                                       ELSE "done",
                                    !.v = r.m.v,
                                    !.rc = r.rc]
    /\ UNCHANGED <<s_pc, s_orig, s_algo, s_fail, s_call, s_null, s_vec, s_made,
                   s_rc, s_deep, notSortVars>>

SortListNext == SortCall \/ ListSortCall

SpecSortList == ListSortInit /\ [][SortListNext]_vars

-----------------------------------------------------------------------------
(* Properties of the sorts *)

IsNonDecreasing(v) == \A i \in 1 .. Len(v) - 1 : v[i][1] <= v[i + 1][1]

\* v holds exactly the elements of w, each once (elements carry distinct tags).
IsPermutation(v, w) ==
    /\ Len(v) = Len(w)
    /\ {v[i] : i \in DOMAIN v} = {w[i] : i \in DOMAIN w}
    /\ \A i, j \in DOMAIN v : v[i] = v[j] => i = j

\* Elements with equal keys stand in the order of their tags, which is the
\* order they had before the call.
IsStable(v) ==
    \A i, j \in DOMAIN v : (i < j /\ v[i][1] = v[j][1]) => v[i][2] < v[j][2]

FourAlgorithms == {SORT_QUICK, SORT_MERGE, SORT_HEAP, SORT_INSERT}

SortCallDone ==
    /\ s_pc = "done" /\ s_call = "algo_sort" /\ s_algo \in FourAlgorithms
    /\ s_fail = 0 /\ s_null = {}

\* C1: for each of the four algorithms and every vector, algo_sort over
\* [vector_begin, vector_end) with a three-way integer comparator (no
\* allocation failing) returns CSTL_OK and leaves the vector non-decreasing
\* and a permutation of its original contents.
C1_SortSortsAndPermutes ==
    SortCallDone =>
        /\ s_rc = CSTL_OK
        /\ IsNonDecreasing(s_vec)
        /\ IsPermutation(s_vec, s_orig)

\* A call of each algorithm on an unsorted vector of three or more elements
\* with a repeated key has returned.
C1_Witness ==
    /\ SortCallDone
    /\ s_algo = SORT_QUICK
    /\ Len(s_orig) >= 3
    /\ ~IsNonDecreasing(s_orig)
    /\ \E i, j \in DOMAIN s_orig : i # j /\ s_orig[i][1] = s_orig[j][1]
    /\ s_vec # s_orig

StableCallDone ==
    /\ s_pc = "done"
    /\ s_fail = 0 /\ s_null = {}
    /\ \/ s_call = "algo_stable_sort"
       \/ s_call = "algo_sort" /\ s_algo \in {SORT_MERGE, SORT_INSERT}

\* C2: algo_sort with SORT_MERGE or SORT_INSERT, and algo_stable_sort, are
\* stable: elements that compare equal keep their relative order.
C2_StableSorts ==
    StableCallDone => IsStable(s_vec) /\ IsNonDecreasing(s_vec)

\* A stable sort has moved elements of a vector in which two equal keys are
\* separated by a smaller one.
C2_Witness ==
    /\ StableCallDone
    /\ s_algo = SORT_INSERT
    /\ s_call = "algo_sort"
    /\ \E i, j, k \in DOMAIN s_orig :
           /\ i < k /\ k < j
           /\ s_orig[i][1] = s_orig[j][1]
           /\ s_orig[k][1] < s_orig[i][1]
    /\ s_vec # s_orig

-----------------------------------------------------------------------------
(* The memory pool: mem_pool_create, mem_pool_alloc, mem_pool_free.        *)
(* A block is named by a number 1, 2, ...: the allocator hands out the     *)
(* next unused number; the pointer a caller gets (block->data) carries the *)
(* same number.                                                            *)

Threads == 1 .. NThreads

\* mutex_lock blocks until the mutex is free; mutex_unlock releases it.
mutex_lock_noop(t) == mp_lock' = mp_lock

mutex_lock(t) == mp_lock = 0 /\ mp_lock' = t

mutex_unlock(t) == mp_lock' = 0

\* The lock has just been released; allocated_blocks and free_blocks are as
\* the call that held it left them.  mp_seen holds the last such pair, and,
\* from the first read of a mem_pool_get_stats to its return, every such
\* pair since the one before the call; it stays as it was at the return.
AtRest ==
    mp_seen' = IF st_pc \in {"read_allocated", "read_free"}
               THEN mp_seen \cup {<<mp_alloc, mp_free>>}
               ELSE IF st_pc = "done" THEN mp_seen
               ELSE {<<mp_alloc, mp_free>>}

\* The blocks reached from block b by next links (at most k of them).
RECURSIVE chain(_, _)
chain(b, k) ==
    IF b = NULL \/ k = 0 THEN {} ELSE {b} \cup chain(mp_next[b], k - 1)

\* The blocks on the free list.
FreeList == chain(mp_head, Len(mp_next))

\* mp_burst[t] of a call that did not go to the allocator; otherwise asked
\* counts the calls of allocate, first is the first block (NULL: refused),
\* extras the number of further blocks supplied, and ret what the call
\* returned.
NoBurst == [asked |-> 0, first |-> NULL, extras |-> 0, ret |-> NULL]

\* The state after mem_pool_create(block_size, grow, NULL) succeeded.
mem_pool_create(grow, cap, threads) ==
    /\ mp_grow = grow
    /\ mp_cap = cap
    /\ mp_head = NULL
    /\ mp_next = <<>>
    /\ mp_free = 0
    /\ mp_alloc = 0
    /\ mp_lock = 0
    /\ mp_pc = [t \in threads |-> "idle"]
    /\ mp_block = [t \in threads |-> NULL]
    /\ mp_held = [t \in threads |-> {}]
    /\ mp_burst = [t \in threads |-> NoBurst]
    /\ mp_seen = {<<0, 0>>}

Goto(t, label) == mp_pc' = [mp_pc EXCEPT ![t] = label]


\* The caller of the script (SpecPoolSeq) notes what mem_pool_alloc returned;
\* outside the script nothing is noted.
ScriptNote(ret) ==
    IF d_phase = "alloc"
    THEN /\ d_ptrs1' = Append(d_ptrs1, ret)
         /\ d_phase' = IF Len(d_ptrs1) + 1 = d_n THEN "free" ELSE "alloc"
         /\ UNCHANGED <<d_n, d_pre, d_made, d_freed, d_ptrs2, d_warm>>
    ELSE IF d_phase = "again"
    THEN /\ d_ptrs2' = Append(d_ptrs2, ret)
         /\ d_phase' = IF Len(d_ptrs2) + 1 = Max(d_n, 1) THEN "done" ELSE "again"
         /\ UNCHANGED <<d_n, d_pre, d_made, d_freed, d_ptrs1, d_warm>>
    ELSE UNCHANGED drvVars

\* ---- mem_pool_alloc(pool), statement by statement
AllocCall(t) ==
    /\ mp_pc[t] = "idle"
    /\ Goto(t, "alloc_lock")
    /\ mp_burst' = [mp_burst EXCEPT ![t] = NoBurst]
    /\ UNCHANGED <<mp_seen, mp_grow, mp_cap, mp_head, mp_next, mp_free, mp_alloc, mp_lock,
                   mp_block, mp_held,
                   notPoolVars>>

AllocLock(t) ==
    /\ mp_pc[t] = "alloc_lock"
    /\ mutex_lock(t)
    /\ Goto(t, "alloc_read")
    /\ UNCHANGED <<mp_burst, mp_seen, mp_grow, mp_cap, mp_head, mp_next, mp_free, mp_alloc,
                   mp_block, mp_held,
                   notPoolVars, drvVars>>

\* mem_pool_alloc that goes to the allocator whatever the free list holds.
AllocRead_always_grow(t) ==
    /\ mp_pc[t] = "alloc_read"
    /\ mp_block' = [mp_block EXCEPT ![t] = mp_head]
    /\ Goto(t, "alloc_grow")
    /\ UNCHANGED <<mp_burst, mp_seen, mp_grow, mp_cap, mp_head, mp_next, mp_free, mp_alloc, mp_lock,
                   mp_held,
                   notPoolVars, drvVars>>

\* block = pool->free_list; if (block != NULL)
AllocRead(t) ==
    /\ mp_pc[t] = "alloc_read"
    /\ mp_block' = [mp_block EXCEPT ![t] = mp_head]
    /\ Goto(t, IF mp_head # NULL THEN "alloc_pop" ELSE "alloc_grow")
    /\ UNCHANGED <<mp_burst, mp_seen, mp_grow, mp_cap, mp_head, mp_next, mp_free, mp_alloc, mp_lock,
                   mp_held,
                   notPoolVars, drvVars>>

\* The pop with the atomic_add on free_blocks left out.
AllocPop_keep_free_blocks(t) ==
    /\ mp_pc[t] = "alloc_pop"
    /\ mp_head' = mp_next[mp_block[t]]
    /\ Goto(t, "alloc_count")
    /\ UNCHANGED <<mp_burst, mp_seen, mp_grow, mp_cap, mp_next, mp_free, mp_alloc,
                   mp_lock, mp_block, mp_held,
                   notPoolVars, drvVars>>

\* pool->free_list = block->next; atomic_add(&pool->free_blocks, -1)
AllocPop(t) ==
    /\ mp_pc[t] = "alloc_pop"
    /\ mp_head' = mp_next[mp_block[t]]
    /\ mp_free' = mp_free - 1
    /\ Goto(t, "alloc_count")
    /\ UNCHANGED <<mp_burst, mp_seen, mp_grow, mp_cap, mp_next, mp_alloc, mp_lock, mp_block,
                   mp_held,
                   notPoolVars, drvVars>>

\* The allocator returns NULL for the first block: unlock, return NULL.
AllocFail(t) ==
    /\ mp_pc[t] = "alloc_grow"
    /\ mutex_unlock(t)
    /\ AtRest
    /\ ScriptNote(NULL)
    /\ mp_burst' = [mp_burst EXCEPT ![t] = [NoBurst EXCEPT !.asked = 1]]
    /\ Goto(t, "idle")
    /\ UNCHANGED <<mp_grow, mp_cap, mp_head, mp_next, mp_free, mp_alloc,
                   mp_block, mp_held,
                   notPoolVars>>

\* The extra blocks left off the free list.
push_extras_none(head, next, first, last) == [head |-> head, next |-> next]

\* The free list after the extra blocks first .. last were pushed in turn.
RECURSIVE push_extras(_, _, _, _)
push_extras(head, next, first, last) ==
    IF first > last THEN [head |-> head, next |-> next]
    ELSE push_extras(first, Append(next, head), first + 1, last)

\* The allocator supplies the first block; of the grow_size - 1 extra
\* blocks it supplies k (the others come back NULL and are skipped); the
\* extras are pushed onto the free list.
AllocGrow(t) ==
    /\ mp_pc[t] = "alloc_grow"
    /\ Len(mp_next) < mp_cap
    /\ \E k \in 0 .. mp_grow - 1 :
          /\ Len(mp_next) + 1 + k <= mp_cap
          /\ LET block == Len(mp_next) + 1
                 r == push_extras(mp_head, Append(mp_next, NULL),
                                  block + 1, block + k)
             IN  /\ mp_block' = [mp_block EXCEPT ![t] = block]
                 /\ mp_head' = r.head
                 /\ mp_next' = r.next
                 /\ mp_free' = mp_free + k
                 /\ mp_burst' = [mp_burst EXCEPT ![t] =
                                    [asked |-> mp_grow, first |-> block,
                                     extras |-> k, ret |-> NULL]]
    /\ Goto(t, "alloc_count")
    /\ UNCHANGED <<mp_seen, mp_grow, mp_cap, mp_alloc, mp_lock, mp_held,
                   notPoolVars, drvVars>>

\* atomic_add(&pool->allocated_blocks, 1)
AllocCount(t) ==
    /\ mp_pc[t] = "alloc_count"
    /\ mp_alloc' = mp_alloc + 1
    /\ Goto(t, "alloc_unlock")
    /\ UNCHANGED <<mp_burst, mp_seen, mp_grow, mp_cap, mp_head, mp_next, mp_free, mp_lock,
                   mp_block, mp_held,
                   notPoolVars, drvVars>>

\* mutex_unlock(&pool->lock); return block->data
AllocReturn(t) ==
    /\ mp_pc[t] = "alloc_unlock"
    /\ mutex_unlock(t)
    /\ AtRest
    /\ ScriptNote(mp_block[t])
    /\ mp_held' = [mp_held EXCEPT ![t] = @ \cup {mp_block[t]}]
    /\ mp_burst' = [mp_burst EXCEPT ![t].ret =
                       IF mp_burst[t].asked > 0 THEN mp_block[t] ELSE NULL]
    /\ mp_block' = [mp_block EXCEPT ![t] = NULL]
    /\ Goto(t, "idle")
    /\ UNCHANGED <<mp_grow, mp_cap, mp_head, mp_next, mp_free, mp_alloc,
                   notPoolVars>>

\* ---- mem_pool_free(pool, ptr), statement by statement; the caller gives
\* up a block it holds.
FreeCall(t, ptr) ==
    /\ mp_pc[t] = "idle"
    /\ ptr \in mp_held[t]
    /\ mp_held' = [mp_held EXCEPT ![t] = @ \ {ptr}]
    /\ mp_block' = [mp_block EXCEPT ![t] = ptr]
    /\ Goto(t, "free_lock")
    /\ UNCHANGED <<mp_burst, mp_seen, mp_grow, mp_cap, mp_head, mp_next, mp_free, mp_alloc, mp_lock,
                   notPoolVars>>

FreeLock(t) ==
    /\ mp_pc[t] = "free_lock"
    /\ mutex_lock(t)
    /\ Goto(t, "free_link")
    /\ UNCHANGED <<mp_burst, mp_seen, mp_grow, mp_cap, mp_head, mp_next, mp_free, mp_alloc,
                   mp_block, mp_held,
                   notPoolVars, drvVars>>

\* block->next = pool->free_list
FreeLink(t) ==
    /\ mp_pc[t] = "free_link"
    /\ mp_next' = [mp_next EXCEPT ![mp_block[t]] = mp_head]
    /\ Goto(t, "free_push")
    /\ UNCHANGED <<mp_burst, mp_seen, mp_grow, mp_cap, mp_head, mp_free, mp_alloc, mp_lock,
                   mp_block, mp_held,
                   notPoolVars, drvVars>>

\* pool->free_list = block
FreePush(t) ==
    /\ mp_pc[t] = "free_push"
    /\ mp_head' = mp_block[t]
    /\ Goto(t, "free_count")
    /\ UNCHANGED <<mp_burst, mp_seen, mp_grow, mp_cap, mp_next, mp_free, mp_alloc, mp_lock,
                   mp_block, mp_held,
                   notPoolVars, drvVars>>

\* mem_pool_free that forgets to count the block as free.
FreeCount_allocated_only(t) ==
    /\ mp_pc[t] = "free_count"
    /\ mp_alloc' = mp_alloc - 1
    /\ Goto(t, "free_unlock")
    /\ UNCHANGED <<mp_burst, mp_seen, mp_grow, mp_cap, mp_head, mp_next, mp_free, mp_lock,
                   mp_block, mp_held,
                   notPoolVars, drvVars>>

\* atomic_add(&pool->allocated_blocks, -1); atomic_add(&pool->free_blocks, 1)
FreeCount(t) ==
    /\ mp_pc[t] = "free_count"
    /\ mp_alloc' = mp_alloc - 1
    /\ mp_free' = mp_free + 1
    /\ Goto(t, "free_unlock")
    /\ UNCHANGED <<mp_burst, mp_seen, mp_grow, mp_cap, mp_head, mp_next, mp_lock,
                   mp_block, mp_held,
                   notPoolVars, drvVars>>

FreeReturn(t) ==
    /\ mp_pc[t] = "free_unlock"
    /\ mutex_unlock(t)
    /\ AtRest
    /\ mp_block' = [mp_block EXCEPT ![t] = NULL]
    /\ Goto(t, "idle")
    /\ UNCHANGED <<mp_burst, mp_grow, mp_cap, mp_head, mp_next, mp_free, mp_alloc, mp_held,
                   notPoolVars, drvVars>>

-----------------------------------------------------------------------------
(* SpecMemPool: NThreads threads call mem_pool_alloc and mem_pool_free on  *)
(* one pool in any interleaving; a thread frees only blocks it holds.      *)

MemPoolInit ==
    /\ OthersIdle({"pool"})
    /\ \E g \in 1 .. MaxGrowConc : mem_pool_create(g, MaxBlocksConc, Threads)

ThreadAlloc(t) ==
    /\ AllocCall(t)
    /\ UNCHANGED drvVars

\* A thread frees one of the blocks it holds.
ThreadFree(t) ==
    /\ \E ptr \in mp_held[t] : FreeCall(t, ptr)
    /\ UNCHANGED drvVars

MemPoolNext ==
    \E t \in Threads :
        \/ ThreadAlloc(t)
        \/ AllocLock(t)
        \/ AllocRead(t)
        \/ AllocPop(t)
        \/ AllocFail(t)
        \/ AllocGrow(t)
        \/ AllocCount(t)
        \/ AllocReturn(t)
        \/ ThreadFree(t)
        \/ FreeLock(t)
        \/ FreeLink(t)
        \/ FreePush(t)
        \/ FreeCount(t)
        \/ FreeReturn(t)

SpecMemPool == MemPoolInit /\ [][MemPoolNext]_vars

\* The blocks thread t has or is about to get from the call it is in.
Handed(t) ==
    mp_held[t] \cup
    (IF mp_pc[t] \in {"alloc_count", "alloc_unlock"} THEN {mp_block[t]} ELSE {})

\* C3: under any interleaving of mem_pool_alloc and mem_pool_free from
\* several threads, a block handed to a caller is not on the free list and
\* is handed to no other caller until it is returned with mem_pool_free.
C3_HandedBlocksExclusive ==
    /\ \A t \in Threads : Handed(t) \cap FreeList = {}
    /\ \A t, u \in Threads : t # u => Handed(t) \cap Handed(u) = {}

\* Both threads hold a block of a pool that grows by two blocks at a time:
\* thread 2 got the block the growth of thread 1's call left on the free
\* list, or the other way round.
C3_Witness ==
    /\ mp_grow = 2
    /\ mp_held[1] # {} /\ mp_held[2] # {}
    /\ mp_alloc = 2
    /\ FreeList = {}

-----------------------------------------------------------------------------
(* SpecPoolSeq: a single caller of one pool.  After any calls of its own   *)
(* (the warm-up, which may leave blocks in its hands) the caller runs a    *)
(* script: d_n calls of mem_pool_alloc, then mem_pool_free of each pointer *)
(* returned (in any order), then max(d_n, 1) calls of mem_pool_alloc.      *)

Caller == 1

\* The pointers passed to mem_pool_free so far.
FreedPtrs == {d_ptrs1[i] : i \in d_freed.done}

PoolSeqInit ==
    /\ OthersIdle({"pool", "driver"})
    /\ \E g \in 1 .. MaxGrowSeq : mem_pool_create(g, MaxBlocksSeq, {Caller})
    /\ d_phase = "warm"
    /\ d_n = 0 /\ d_pre = 0 /\ d_made = 0
    /\ d_ptrs1 = <<>> /\ d_freed = NoneFreed /\ d_ptrs2 = <<>>
    /\ d_warm = 0

WarmAlloc ==
    /\ d_phase = "warm"
    /\ d_warm < MaxWarm
    /\ AllocCall(Caller)
    /\ d_warm' = d_warm + 1
    /\ UNCHANGED <<d_phase, d_n, d_pre, d_made, d_ptrs1, d_freed, d_ptrs2>>

WarmFree ==
    /\ d_phase = "warm"
    /\ d_warm < MaxWarm
    /\ \E ptr \in mp_held[Caller] : FreeCall(Caller, ptr)
    /\ d_warm' = d_warm + 1
    /\ UNCHANGED <<d_phase, d_n, d_pre, d_made, d_ptrs1, d_freed, d_ptrs2>>

\* The script starts, between two calls, with some N.
ScriptBegin ==
    /\ d_phase = "warm"
    /\ mp_pc[Caller] = "idle"
    /\ \E n \in 0 .. MaxN :
          /\ d_n' = n
          /\ d_phase' = IF n = 0 THEN "again" ELSE "alloc"
    /\ d_pre' = mp_free
    /\ d_made' = Len(mp_next)
    /\ UNCHANGED <<d_ptrs1, d_freed, d_ptrs2, d_warm, poolVars, notPoolVars>>

ScriptAlloc ==
    /\ d_phase \in {"alloc", "again"}
    /\ AllocCall(Caller)
    /\ UNCHANGED drvVars

\* mem_pool_free of one of the pointers not freed yet; a NULL pointer makes
\* mem_pool_free return at once.
ScriptFree ==
    /\ d_phase = "free"
    /\ mp_pc[Caller] = "idle"
    /\ \E i \in (1 .. d_n) \ d_freed.done :
          /\ d_freed' = [done |-> d_freed.done \cup {i},
                         last |-> IF d_ptrs1[i] = NULL THEN d_freed.last
                                  ELSE d_ptrs1[i]]
          /\ IF d_ptrs1[i] = NULL
             THEN UNCHANGED <<poolVars, notPoolVars>>
             ELSE FreeCall(Caller, d_ptrs1[i])
    /\ d_phase' = IF Cardinality(d_freed.done) + 1 = d_n THEN "again" ELSE "free"
    /\ UNCHANGED <<d_n, d_pre, d_made, d_ptrs1, d_ptrs2, d_warm>>

PoolSeqNext ==
    \/ WarmAlloc
    \/ WarmFree
    \/ ScriptBegin
    \/ ScriptAlloc
    \/ ScriptFree
    \/ AllocLock(Caller)
    \/ AllocRead(Caller)
    \/ AllocPop(Caller)
    \/ AllocFail(Caller)
    \/ AllocGrow(Caller)
    \/ AllocCount(Caller)
    \/ AllocReturn(Caller)
    \/ FreeLock(Caller)
    \/ FreeLink(Caller)
    \/ FreePush(Caller)
    \/ FreeCount(Caller)
    \/ FreeReturn(Caller)

SpecPoolSeq == PoolSeqInit /\ [][PoolSeqNext]_vars

\* The N allocs and the N frees have all returned; no alloc was called since.
ScriptFreed ==
    d_phase = "again" /\ mp_pc[Caller] = "idle" /\ d_ptrs2 = <<>>

Range(f) == {f[i] : i \in DOMAIN f}

\* The claim C4 as the specification states it: after N allocs and N frees
\* the free-block count is what it was before, and the next alloc returns
\* one of the pointers just freed.
C4_AsStated ==
    /\ ScriptFreed => mp_free = d_pre
    /\ Len(d_ptrs2) >= 1 => d_ptrs2[1] \in FreedPtrs

\* C4 (amended): after N mem_pool_alloc calls followed by mem_pool_free of
\* the N returned pointers, from any pool state, the free-block count is
\* its value before the sequence plus the number of blocks the sequence's
\* growth bursts obtained from the allocator (so it is the old value when
\* no alloc of the sequence met an empty free list); and when an alloc of
\* the sequence returned a block, the next mem_pool_alloc returns one of
\* the pointers just freed (the one freed last).
C4_FreeCountAndRecycling ==
    /\ ScriptFreed =>
          /\ mp_free = d_pre + (Len(mp_next) - d_made)
          /\ mp_free = Cardinality(FreeList)
    /\ (Len(d_ptrs2) >= 1 /\ Range(d_ptrs1) \ {NULL} # {}) =>
          /\ d_ptrs2[1] \in FreedPtrs \ {NULL}
          /\ d_ptrs2[1] = d_freed.last

\* A script of two successful allocs on a pool that was used before, one of
\* them growing the pool, has been followed by a third alloc.
C4_Witness ==
    /\ d_phase = "done"
    /\ d_n = 2
    /\ NULL \notin Range(d_ptrs1)
    /\ d_made >= 2
    /\ d_pre = 1
    /\ Len(mp_next) > d_made
    /\ mp_held[Caller] # {d_ptrs2[1]}

\* The script of C5: on a fresh pool, N = grow_size and the N allocs of the
\* first round all returned a block.
FreshRoundTrip ==
    /\ d_phase \in {"alloc", "free", "again", "done"}
    /\ d_made = 0
    /\ d_n = mp_grow
    /\ Len(d_ptrs1) = d_n
    /\ NULL \notin Range(d_ptrs1)

\* C5: mem_pool_alloc asks the allocator for memory only when the free list
\* is empty: on a fresh pool with growth g, allocating g blocks, freeing all
\* g and allocating g again returns in the second round exactly the g
\* addresses of the first round (2g pointers, g distinct addresses), and
\* the second round never reaches the allocator.
C5_SecondRoundRecycles ==
    FreshRoundTrip =>
        /\ Cardinality(Range(d_ptrs1)) = mp_grow
        /\ d_phase = "again" => mp_pc[Caller] # "alloc_grow"
        /\ Range(d_ptrs2) \subseteq Range(d_ptrs1)
        /\ d_phase = "done" =>
              /\ Range(d_ptrs2) = Range(d_ptrs1)
              /\ Cardinality(Range(d_ptrs1) \cup Range(d_ptrs2)) = mp_grow

\* Growth 4: four allocs (one burst of four blocks), four frees, four allocs.
C5_Witness ==
    /\ FreshRoundTrip
    /\ d_phase = "done"
    /\ mp_grow = 4
    /\ Len(mp_next) = 4
    /\ Len(d_ptrs1) + Len(d_ptrs2) = 8

-----------------------------------------------------------------------------
(* The object pool: obj_pool_create, obj_pool_alloc, obj_pool_free.  An    *)
(* object is named by its address 1, 2, ...: the allocator hands out the   *)
(* next unused one.  op_list is free_list[0 .. count), so pool->count is   *)
(* Len(op_list).  Each call runs under pool->lock from its first statement *)
(* to its last and is one step here.                                       *)

count == Len(op_list)

\* atomic_add with the addend dropped.
atomic_add_nothing(value, n) == value

\* atomic_add(&counter, n): the counter afterwards
atomic_add(value, n) == value + n

\* The allocator can supply the next object / enlarge the pointer array.
can_allocate(j) == op_made + j <= MaxObjs
can_reallocate(new_capacity) == new_capacity <= MaxCap

\* The j objects allocated after the first made ones, in the order they are
\* pushed: free_list[count++] = obj.
new_objects(made, j) == [i \in 1 .. j |-> made + i]

\* new_capacity = pool->capacity + pool->grow_size, with the update left out.
new_capacity_same(capacity, grow_size) == capacity

new_capacity(capacity, grow_size) == capacity + grow_size

\* obj = pool->free_list[--pool->count], with the decrement left out.
pop_keep(list) == list

pop(list) == SubSeq(list, 1, Len(list) - 1)

top(list) == IF list = <<>> THEN NULL ELSE list[Len(list)]

\* What the caller saw: the call, its result, and the pool before the call.
Called(op, ret) ==
    op_last' = [op |-> op, ret |-> ret, capacity |-> op_cap, count |-> count,
                issued |-> op_issued]

\* The state after obj_pool_create(obj_size, initial_size, grow_size, ...)
\* succeeded: k of the initial_size objects could be allocated.
obj_pool_create(initial_size, grow_size, k) ==
    /\ op_cap = initial_size
    /\ op_grow = grow_size
    /\ op_list = new_objects(0, k)
    /\ op_made = k
    /\ op_issued = {}
    /\ op_gone = {}
    /\ op_last = [op |-> "create", ret |-> NULL, capacity |-> 0, count |-> 0,
                  issued |-> {}]
    /\ op_alloc = 0
    /\ op_free = k

\* obj_pool_alloc, count > 0: pop the last free pointer.
ObjAllocPop ==
    /\ count > 0
    /\ op_list' = pop(op_list)
    /\ op_issued' = op_issued \cup {top(op_list)}
    /\ op_free' = atomic_add(op_free, -1)
    /\ op_alloc' = atomic_add(op_alloc, 1)
    /\ Called("alloc", top(op_list))
    /\ UNCHANGED <<op_cap, op_grow, op_made, op_gone, notObjVars>>

\* obj_pool_alloc, count = 0, the pointer array cannot be enlarged: NULL.
ObjAllocFail ==
    /\ count = 0
    /\ Called("alloc", NULL)
    /\ UNCHANGED <<op_cap, op_grow, op_list, op_issued, op_made, op_gone,
                   op_alloc, op_free, notObjVars>>

\* obj_pool_alloc, count = 0: enlarge the pointer array, allocate grow_size
\* objects (j of them succeed), push them, set the capacity, pop one if any.
ObjAllocGrow ==
    /\ count = 0
    /\ can_reallocate(op_cap + op_grow)
    /\ \E j \in 0 .. op_grow :
          /\ can_allocate(j)
          /\ LET list == op_list \o new_objects(op_made, j)
             IN  /\ op_made' = op_made + j
                 /\ op_cap' = new_capacity(op_cap, op_grow)
                 /\ op_list' = IF list # <<>> THEN pop(list) ELSE list
                 /\ op_issued' = op_issued \cup ({top(list)} \ {NULL})
                 /\ op_free' = IF list # <<>>
                               THEN atomic_add(atomic_add(op_free, j), -1)
                               ELSE atomic_add(op_free, j)
                 /\ op_alloc' = IF top(list) # NULL
                                THEN atomic_add(op_alloc, 1)
                                ELSE op_alloc
                 /\ Called("alloc", top(list))
    /\ UNCHANGED <<op_grow, op_gone, notObjVars>>

\* obj_pool_free(pool, obj): when the array is full it is enlarged if the
\* allocator can (grew); then the object is pushed if there is room, and
\* destroyed and released otherwise.
obj_pool_free(obj) ==
    \E grew \in BOOLEAN :
        /\ grew => (count >= op_cap /\ can_reallocate(op_cap + op_grow))
        /\ LET capacity == IF grew THEN op_cap + op_grow ELSE op_cap
           IN  /\ op_cap' = capacity
               /\ IF count < capacity
                  THEN /\ op_list' = Append(op_list, obj)
                       /\ op_alloc' = atomic_add(op_alloc, -1)
                       /\ op_free' = atomic_add(op_free, 1)
                       /\ UNCHANGED op_gone
                  ELSE /\ op_gone' = op_gone \cup {obj}
                       /\ UNCHANGED <<op_list, op_alloc, op_free>>
        /\ op_issued' = op_issued \ {obj}
        /\ Called("free", obj)
        /\ UNCHANGED <<op_grow, op_made, notObjVars>>

\* obj_pool_free of an object the caller holds.
ObjFree == \E obj \in op_issued : obj_pool_free(obj)

\* Objects of the pool's size that the caller got from the allocator itself.
Others == MaxObjs + 1 .. MaxObjs + MaxOthers

\* obj_pool_free of such an object, which the pool has not seen yet.
ObjFreeOther ==
    \E obj \in Others \ (Range(op_list) \cup op_issued \cup op_gone) :
        obj_pool_free(obj)

-----------------------------------------------------------------------------
(* SpecObjPool: one pool, created with any initial_size and grow_size, and *)
(* any sequence of obj_pool_alloc and obj_pool_free calls; a caller frees  *)
(* only objects it holds.                                                  *)

ObjPoolInit ==
    /\ OthersIdle({"obj"})
    /\ \E initial_size \in 1 .. MaxInitial, grow_size \in 1 .. MaxGrowObj :
          \E k \in 0 .. initial_size :
              obj_pool_create(initial_size, grow_size, k)

ObjPoolNext ==
    \/ ObjAllocPop
    \/ ObjAllocFail
    \/ ObjAllocGrow
    \/ ObjFree

SpecObjPool == ObjPoolInit /\ [][ObjPoolNext]_vars

\* The same pool with a caller that also hands it objects of its own.
ObjPoolAnyNext ==
    \/ ObjAllocPop
    \/ ObjAllocFail
    \/ ObjAllocGrow
    \/ ObjFree
    \/ ObjFreeOther

SpecObjPoolAny == ObjPoolInit /\ [][ObjPoolAnyNext]_vars

\* The last call was obj_pool_alloc on a pool with count = 0.
AllocAtCountZero == op_last.op = "alloc" /\ op_last.count = 0

\* C6: when obj_pool_alloc is called with count = 0 and supplies an object,
\* the capacity has grown by at least grow_size, and every object issued
\* before the call is still issued: it is not the object returned, it is
\* not among the free pointers and it was not released to the allocator.
C6_GrowthKeepsIssuedObjects ==
    AllocAtCountZero =>
        /\ op_last.ret # NULL => op_cap >= op_last.capacity + op_grow
        /\ op_last.issued \subseteq op_issued
        /\ op_last.ret \notin op_last.issued
        /\ \A obj \in op_last.issued :
              /\ obj \notin Range(op_list)
              /\ obj \notin op_gone

\* The pool grew while objects were issued and supplied a new object.
C6_Witness ==
    /\ AllocAtCountZero
    /\ op_last.issued # {}
    /\ op_last.ret # NULL
    /\ op_cap = op_last.capacity + op_grow
    /\ count >= 1

\* The objects the allocator supplied that are neither issued nor released.
FreeObjects == (1 .. op_made) \ (op_issued \cup op_gone)

\* C7: after any sequence of obj_pool_create, obj_pool_alloc and
\* obj_pool_free calls, count <= capacity and slots [0, count) of the
\* free-pointer array hold exactly the pool's free objects: non-null,
\* pairwise distinct, none of them issued to a caller.
C7_FreeArrayInvariant ==
    /\ count <= op_cap
    /\ NULL \notin Range(op_list)
    /\ Cardinality(Range(op_list)) = count
    /\ Range(op_list) \cap op_issued = {}
    /\ Range(op_list) = FreeObjects

\* After growth, with objects issued, an object was pushed back on an array
\* that holds other free objects.
C7_Witness ==
    /\ op_last.op = "free"
    /\ count >= 2
    /\ op_issued # {}
    /\ op_made > MaxInitial
    /\ top(op_list) = op_last.ret

-----------------------------------------------------------------------------
(* A vector shared by threads: vector_push_back, vector_pop_back,          *)
(* vector_at and vector_size, statement by statement.  v_slots[i] is the   *)
(* element stored at data + i (0: nothing stored); v_base names the        *)
(* address of the data array, which a reallocation may change.             *)

\* The values the workers push are distinct: thread_id * OPERATIONS + i.
OPERATIONS_PER_THREAD == MaxCalls
Calls(role) == IF role = "push" THEN MaxCalls ELSE MaxMixed
PushValue(t) == t * OPERATIONS_PER_THREAD + (Calls(v_role) - v_left[t])
AllValues == {t * OPERATIONS_PER_THREAD + i : t \in Threads, i \in 0 .. MaxCalls - 1}
Slots == 0 .. NThreads * MaxCalls + MaxInitCap - 1

\* vector_lock that never takes the mutex.
vector_lock_skip(t) == UNCHANGED v_lock

\* vector_lock / vector_unlock: the mutex is used only when thread_safe is set.
vector_lock(t) ==
    IF v_ts # 0 THEN v_lock = 0 /\ v_lock' = t ELSE UNCHANGED v_lock

vector_unlock(t) ==
    IF v_ts # 0 THEN v_lock' = 0 ELSE UNCHANGED v_lock

\* The capacity vector_ensure_capacity grows to.
vector_new_capacity(capacity) ==
    IF capacity <= 128 THEN capacity + 32
    ELSE IF capacity <= 8 * 1024 THEN capacity * 2
    ELSE IF capacity <= 128 * 1024 THEN capacity + 1024 * 4
    ELSE capacity + 64 * 1024

VGoto(t, label) == v_pc' = [v_pc EXCEPT ![t] = label]

\* A call returns: the thread has one call less to make and is done with
\* the argument and the result.
VReturn(t) ==
    /\ VGoto(t, "idle")
    /\ v_arg' = [v_arg EXCEPT ![t] = 0]
    /\ v_left' = [v_left EXCEPT ![t] = @ - 1]

\* vector_enable_thread_safety initialises the mutex, sets thread_safe and
\* then calls vector_unlock although its vector_lock, made while thread_safe
\* was 0, locked nothing: unlocking a mutex that is not locked is undefined.
\* The mutex is left free, or left in a state no thread can take it from
\* (as if a thread that does not exist held it).
vector_enable_thread_safety == {0, NThreads + 1}

\* The state after vector_create(element_size, capacity, NULL, NULL),
\* size pushes of the values -1, -2, ... and vector_enable_thread_safety,
\* before the threads start.
vector_create(capacity, size, role, lock) ==
    /\ v_ts = 1
    /\ v_lock = lock
    /\ v_base = 1
    /\ v_cap = capacity
    /\ v_size = size
    /\ v_slots = [i \in Slots |-> IF i < size THEN 0 - (i + 1) ELSE 0]
    /\ v_pc = [t \in Threads |-> "idle"]
    /\ v_left = [t \in Threads |-> Calls(role)]
    /\ v_arg = [t \in Threads |-> 0]
    /\ v_ok = [t \in Threads |-> {}]
    /\ v_role = role

\* ---- vector_push_back(vector, &value)
PushCall(t) ==
    /\ v_pc[t] = "idle" /\ v_left[t] > 0
    /\ v_arg' = [v_arg EXCEPT ![t] = PushValue(t)]
    /\ VGoto(t, "push_lock")
    /\ UNCHANGED <<v_ts, v_lock, v_base, v_cap, v_size, v_slots, v_left, v_ok,
                   v_role, notVecVars>>

PushLock(t) ==
    /\ v_pc[t] = "push_lock"
    /\ vector_lock(t)
    /\ VGoto(t, "push_ensure")
    /\ UNCHANGED <<v_ts, v_base, v_cap, v_size, v_slots, v_left, v_arg, v_ok,
                   v_role, notVecVars>>

\* vector_ensure_capacity(vector, size + 1) returns CSTL_OK: the capacity
\* suffices, or the array is reallocated (and may move).
PushEnsure(t) ==
    /\ v_pc[t] = "push_ensure"
    /\ IF v_cap >= v_size + 1
       THEN UNCHANGED <<v_base, v_cap>>
       ELSE /\ v_cap' = vector_new_capacity(v_cap)
            /\ \E moved \in BOOLEAN :
                  v_base' = IF moved THEN v_base + 1 ELSE v_base
    /\ VGoto(t, "push_copy")
    /\ UNCHANGED <<v_ts, v_lock, v_size, v_slots, v_left, v_arg, v_ok, v_role,
                   notVecVars>>

\* The reallocation fails: unlock, return CSTL_ERROR_OUT_OF_MEMORY.
PushEnsureFail(t) ==
    /\ v_pc[t] = "push_ensure"
    /\ v_cap < v_size + 1
    /\ vector_unlock(t)
    /\ VReturn(t)
    /\ UNCHANGED <<v_ts, v_base, v_cap, v_size, v_slots, v_ok, v_role,
                   notVecVars>>

\* memcpy(data + size * element_size, element, element_size)
PushCopy(t) ==
    /\ v_pc[t] = "push_copy"
    /\ v_slots' = [v_slots EXCEPT ![v_size] = v_arg[t]]
    /\ VGoto(t, "push_inc")
    /\ UNCHANGED <<v_ts, v_lock, v_base, v_cap, v_size, v_left, v_arg, v_ok,
                   v_role, notVecVars>>

\* vector->size++
PushInc(t) ==
    /\ v_pc[t] = "push_inc"
    /\ v_size' = v_size + 1
    /\ VGoto(t, "push_unlock")
    /\ UNCHANGED <<v_ts, v_lock, v_base, v_cap, v_slots, v_left, v_arg, v_ok,
                   v_role, notVecVars>>

\* vector_unlock(vector); return CSTL_OK
PushReturn(t) ==
    /\ v_pc[t] = "push_unlock"
    /\ vector_unlock(t)
    /\ v_ok' = [v_ok EXCEPT ![t] = @ \cup {v_arg[t]}]
    /\ VReturn(t)
    /\ UNCHANGED <<v_ts, v_base, v_cap, v_size, v_slots, v_role,
                   notVecVars>>

\* ---- vector_pop_back(vector)
PopCall(t) ==
    /\ v_role = "mixed"
    /\ v_pc[t] = "idle" /\ v_left[t] > 0
    /\ VGoto(t, "pop_lock")
    /\ UNCHANGED <<v_ts, v_lock, v_base, v_cap, v_size, v_slots, v_left, v_arg,
                   v_ok, v_role, notVecVars>>

PopLock(t) ==
    /\ v_pc[t] = "pop_lock"
    /\ vector_lock(t)
    /\ VGoto(t, "pop_check")
    /\ UNCHANGED <<v_ts, v_base, v_cap, v_size, v_slots, v_left, v_arg, v_ok,
                   v_role, notVecVars>>

\* size == 0: unlock, return CSTL_ERROR_CONTAINER_EMPTY
PopEmpty(t) ==
    /\ v_pc[t] = "pop_check"
    /\ v_size = 0
    /\ vector_unlock(t)
    /\ VReturn(t)
    /\ UNCHANGED <<v_ts, v_base, v_cap, v_size, v_slots, v_ok, v_role,
                   notVecVars>>

\* vector->size--
PopDec(t) ==
    /\ v_pc[t] = "pop_check"
    /\ v_size # 0
    /\ v_size' = v_size - 1
    /\ VGoto(t, "pop_unlock")
    /\ UNCHANGED <<v_ts, v_lock, v_base, v_cap, v_slots, v_left, v_arg, v_ok,
                   v_role, notVecVars>>

PopReturn(t) ==
    /\ v_pc[t] = "pop_unlock"
    /\ vector_unlock(t)
    /\ VReturn(t)
    /\ UNCHANGED <<v_ts, v_base, v_cap, v_size, v_slots, v_ok, v_role,
                   notVecVars>>

\* ---- vector_at(vector, index, &element): no call of vector_lock
AtCall(t, index) ==
    /\ v_role = "mixed"
    /\ v_pc[t] = "idle" /\ v_left[t] > 0
    /\ v_arg' = [v_arg EXCEPT ![t] = index]
    /\ VGoto(t, "at_check")
    /\ UNCHANGED <<v_ts, v_lock, v_base, v_cap, v_size, v_slots, v_left, v_ok,
                   v_role, notVecVars>>

\* if (index >= vector->size) return CSTL_ERROR_INVALID_INDEX
AtCheck(t) ==
    /\ v_pc[t] = "at_check"
    /\ IF v_arg[t] >= v_size
       THEN VReturn(t)
       ELSE VGoto(t, "at_element") /\ UNCHANGED <<v_left, v_arg>>
    /\ UNCHANGED <<v_ts, v_lock, v_base, v_cap, v_size, v_slots, v_ok,
                   v_role, notVecVars>>

\* *element = data + index * element_size; return CSTL_OK (the element
\* pointer goes to the caller)
AtElement(t) ==
    /\ v_pc[t] = "at_element"
    /\ VReturn(t)
    /\ UNCHANGED <<v_ts, v_lock, v_base, v_cap, v_size, v_slots, v_ok, v_role,
                   notVecVars>>

\* ---- vector_size(vector): no call of vector_lock
SizeCall(t) ==
    /\ v_role = "mixed"
    /\ v_pc[t] = "idle" /\ v_left[t] > 0
    /\ VGoto(t, "size_read")
    /\ UNCHANGED <<v_ts, v_lock, v_base, v_cap, v_size, v_slots, v_left, v_arg,
                   v_ok, v_role, notVecVars>>

\* return vector->size
SizeRead(t) ==
    /\ v_pc[t] = "size_read"
    /\ VReturn(t)
    /\ UNCHANGED <<v_ts, v_lock, v_base, v_cap, v_size, v_slots, v_ok, v_role,
                   notVecVars>>

-----------------------------------------------------------------------------
(* SpecVector: NThreads threads share one vector with thread safety        *)
(* enabled.  With role "push" each makes MaxCalls calls of                 *)
(* vector_push_back (the workers of run_thread_safe_test); with role       *)
(* "mixed" each makes MaxMixed calls, any of push_back, pop_back,          *)
(* vector_at and vector_size, on a vector that may hold elements already.  *)

VectorInit ==
    /\ OthersIdle({"vector"})
    /\ \E capacity \in 0 .. MaxInitCap, role \in {"push", "mixed"} :
          \E size \in IF role = "push" THEN {0} ELSE 0 .. capacity,
             lock \in vector_enable_thread_safety :
              vector_create(capacity, size, role, lock)

VectorNext ==
    \E t \in Threads :
        \/ PushCall(t)
        \/ PushLock(t)
        \/ PushEnsure(t)
        \/ PushEnsureFail(t)
        \/ PushCopy(t)
        \/ PushInc(t)
        \/ PushReturn(t)
        \/ PopCall(t)
        \/ PopLock(t)
        \/ PopEmpty(t)
        \/ PopDec(t)
        \/ PopReturn(t)
        \/ \E index \in 0 .. MaxMixed : AtCall(t, index)
        \/ AtCheck(t)
        \/ AtElement(t)
        \/ SizeCall(t)
        \/ SizeRead(t)

SpecVector == VectorInit /\ [][VectorNext]_vars

\* The workers have all returned from their last call.
WorkersJoined ==
    \A t \in Threads : v_pc[t] = "idle" /\ v_left[t] = 0

\* The values whose vector_push_back returned CSTL_OK.
Pushed == UNION {v_ok[t] : t \in Threads}

\* C8: with thread safety enabled before the workers start, every
\* interleaving of W workers each calling vector_push_back K times with
\* values distinct across the workers ends with every value whose push
\* succeeded present exactly once and nothing else in the vector: size W*K
\* when all pushes succeed.
C8_ConcurrentPushesAllPresent ==
    (v_ts = 1 /\ v_role = "push" /\ WorkersJoined) =>
        /\ v_size = Cardinality(Pushed)
        /\ \A val \in Pushed :
              Cardinality({i \in 0 .. v_size - 1 : v_slots[i] = val}) = 1
        /\ Pushed = AllValues => v_size = NThreads * MaxCalls

\* All pushes of all workers succeeded, the array was reallocated, and the
\* workers' values are interleaved in the vector.
C8_Witness ==
    /\ v_role = "push" /\ WorkersJoined
    /\ Pushed = AllValues
    /\ v_size = NThreads * MaxCalls
    /\ v_cap >= 32
    /\ v_slots[0] \in v_ok[2]
    /\ v_slots[1] \in v_ok[1]

\* Where a thread is between the first and the last statement of a call.
InsideMutating == {"push_ensure", "push_copy", "push_inc", "push_unlock",
                   "pop_check", "pop_unlock"}
InsideReading == {"at_check", "at_element", "size_read"}

\* C9: when the vector's thread safety is enabled, each public operation
\* (push, pop, vector_at, vector_size) executes entirely while holding the
\* vector's mutex, so none of them reads or writes the vector while another
\* thread is inside a mutating operation on it.
C9_OperationsHoldMutex ==
    v_ts = 1 =>
        /\ \A t \in Threads :
              v_pc[t] \in InsideMutating \cup InsideReading => v_lock = t
        /\ \A t, u \in Threads :
              ~ (t # u /\ v_pc[t] \in InsideReading /\ v_pc[u] \in InsideMutating)

-----------------------------------------------------------------------------
(* SpecIter: two iterators over vectors of i_size elements each, obtained  *)
(* with vector_begin or vector_end and moved with iterator_next and        *)
(* iterator_prev.  i_it[k] is iterator k; i_pos[k] is the logical position *)
(* it stands at: the number of elements before it (i_size: past the end).  *)

Iters == {1, 2}
Vectors == {1, 2}

IterBegin(k, c) ==
    /\ i_it' = [i_it EXCEPT ![k] = vector_begin(c, i_size)]
    /\ i_pos' = [i_pos EXCEPT ![k] = 0]
    /\ UNCHANGED <<i_size, notIterVars>>

IterEnd(k, c) ==
    /\ i_it' = [i_it EXCEPT ![k] = vector_end(c, i_size)]
    /\ i_pos' = [i_pos EXCEPT ![k] = i_size]
    /\ UNCHANGED <<i_size, notIterVars>>

\* iterator_next returned CSTL_OK: one position forward.
IterNext(k) ==
    /\ vector_iterator_next(i_size, i_it[k]).rc = CSTL_OK
    /\ i_it' = [i_it EXCEPT ![k] = vector_iterator_next(i_size, i_it[k]).it]
    /\ i_pos' = [i_pos EXCEPT ![k] = @ + 1]
    /\ UNCHANGED <<i_size, notIterVars>>

\* iterator_prev returned CSTL_OK: one position back.
IterPrev(k) ==
    /\ vector_iterator_prev(i_size, i_it[k]).rc = CSTL_OK
    /\ i_it' = [i_it EXCEPT ![k] = vector_iterator_prev(i_size, i_it[k]).it]
    /\ i_pos' = [i_pos EXCEPT ![k] = @ - 1]
    /\ UNCHANGED <<i_size, notIterVars>>

IterInit ==
    /\ OthersIdle({"iter"})
    /\ i_size \in 0 .. MaxLen
    /\ i_it = [k \in Iters |-> vector_begin(VEC, i_size)]
    /\ i_pos = [k \in Iters |-> 0]

IterNext_ ==
    \E k \in Iters :
        \/ \E c \in Vectors : IterBegin(k, c)
        \/ \E c \in Vectors : IterEnd(k, c)
        \/ IterNext(k)
        \/ IterPrev(k)

SpecIter == IterInit /\ [][IterNext_]_vars

\* C10: two iterators compare equal under iterator_equal if and only if
\* they reference the same container and the same logical position, the
\* past-the-end position included: an iterator advanced from begin past
\* the last element compares equal to the container's end iterator.
C10_EqualIffSamePosition ==
    \A j, k \in Iters :
        iterator_equal(i_it[j], i_it[k]) <=>
            (i_it[j].container = i_it[k].container /\ i_pos[j] = i_pos[k])

-----------------------------------------------------------------------------
(* SpecCursor: one container, a vector or a list, created empty; the       *)
(* caller appends and removes elements at its back, and holds two iterator *)
(* variables that it sets with begin, end and iterator_clone and moves     *)
(* with iterator_next and iterator_prev.                                    *)
(*                                                                         *)
(* A list node lives at one of the addresses NodeAddrs; c_mem[a] is the    *)
(* list_node_t stored there while the node is allocated.  An iterator may  *)
(* still hold the address of a freed node: a call that reads it sees       *)
(* whatever the allocator left there, any list_node_t value.               *)

NodeAddrs == {NodeAt(n) : n \in 1 .. MaxNodes}

\* c_mem[a] while no node is allocated at a.
Unused == [prev |-> NULL, next |-> NULL, data |-> NULL]

\* What a read of a block that is not allocated may yield: any link and
\* any data pointer (one call reads one of the two links).
Left ==
    {[prev |-> p, next |-> p, data |-> d] :
        p \in {NULL} \cup NodeAddrs, d \in {NULL} \cup {node_data(a) : a \in NodeAddrs}}

\* The memory as one call reads it.
Seen(left) == [a \in NodeAddrs |-> IF a \in c_live THEN c_mem[a] ELSE left]

\* What the blocks that are not allocated may yield to a call on iterator
\* it: the call reads them only through the node of a list iterator.
Reads(it) ==
    IF c_kind = "list" /\ it.node \in NodeAddrs \ c_live THEN Left ELSE {Unused}

\* iterator.c dispatches through the function pointers of the iterator.
\* Only vector_iterator_create sets the clone pointer.
iterator_next(mem, it) ==
    IF c_kind = "vector" THEN vector_iterator_next(c_size, it)
                         ELSE list_iterator_next(mem, it)

iterator_prev(mem, it) ==
    IF c_kind = "vector" THEN vector_iterator_prev(c_size, it)
                         ELSE list_iterator_prev(mem, it)

iterator_get(mem, it) ==
    IF c_kind = "vector" THEN vector_iterator_get(c_size, it)
                         ELSE list_iterator_get(mem, it)

iterator_valid(it) ==
    IF c_kind = "vector" THEN vector_iterator_valid(c_size, it)
                         ELSE list_iterator_valid(it)

iterator_clone(it, junk) ==
    IF c_kind = "vector" THEN vector_iterator_clone(it)
                         ELSE iterator_clone_default(it, junk)

container_begin ==
    IF c_kind = "vector" THEN vector_begin(VEC, c_size)
                         ELSE list_begin(VEC, c_head, c_mem)

container_end ==
    IF c_kind = "vector" THEN vector_end(VEC, c_size)
                         ELSE list_end(VEC, c_head, c_mem)

\* The values a read of the word past a cloned base iterator can yield.
Junk == IF c_kind = "vector" THEN {NULL} ELSE {NULL} \cup NodeAddrs

\* The iterator the caller's variable k points to.
Cursor(k) == c_obj[c_ref[k]]

\* The logical position of an iterator: the number of elements before it,
\* c_size when it is past the last element, -1 when it stands at no
\* position of the container (a node that is not in the list).
RECURSIVE node_index(_, _, _)
node_index(node, at, i) ==
    IF at = NULL \/ i >= c_size THEN -1
    ELSE IF at = node THEN i
    ELSE node_index(node, c_mem[at].next, i + 1)

Position(it) ==
    IF c_kind = "vector"
    THEN IF it.index <= c_size THEN it.index ELSE -1
    ELSE IF it.node = NULL THEN c_size ELSE node_index(it.node, c_head, 0)

\* The result returned through the caller's variable new_iterator.
clone_shared(new_iterator, iterator) == iterator
clone_result(new_iterator, iterator) == new_iterator

\* c_last.twin while no clone is followed.
NoTwin == [clone |-> 0, of |-> 0, orig |-> NULL]

\* The record of a call: the variable it was made on, what it returned, the
\* iterator before it and, from iterator_clone on and as long as only the
\* clone is moved, the clone's variable, the variable it was cloned from
\* and that iterator as it was then.
Called_(op, k, rc, was, twin) ==
    c_last' = [op |-> op, k |-> k, rc |-> rc, was |-> was, twin |-> twin]

Followed(k) == IF c_last.twin.clone = k THEN c_last.twin ELSE NoTwin

CurBegin(k) ==
    /\ c_obj' = [c_obj EXCEPT ![k] = container_begin]
    /\ c_ref' = [c_ref EXCEPT ![k] = k]
    /\ Called_("begin", k, CSTL_OK, container_begin, NoTwin)
    /\ UNCHANGED <<c_kind, c_size, c_head, c_tail, c_mem, c_live, notCurVars>>

CurEnd(k) ==
    /\ c_obj' = [c_obj EXCEPT ![k] = container_end]
    /\ c_ref' = [c_ref EXCEPT ![k] = k]
    /\ Called_("end", k, CSTL_OK, container_end, NoTwin)
    /\ UNCHANGED <<c_kind, c_size, c_head, c_tail, c_mem, c_live, notCurVars>>

\* variable k = iterator_clone(variable j): the block variable k pointed to
\* is destroyed and a new block is filled from j's iterator.
CurClone(k, j) ==
    /\ k # j
    /\ \E junk \in Junk :
          c_obj' = [c_obj EXCEPT ![k] = iterator_clone(Cursor(j), junk)]
    /\ c_ref' = [c_ref EXCEPT ![k] = clone_result(k, c_ref[j])]
    /\ Called_("clone", k, CSTL_OK, Cursor(j),
               [clone |-> k, of |-> j, orig |-> Cursor(j)])
    /\ UNCHANGED <<c_kind, c_size, c_head, c_tail, c_mem, c_live, notCurVars>>

CurNext(k) ==
    /\ \E left \in Reads(Cursor(k)) :
          LET call == iterator_next(Seen(left), Cursor(k))
          IN  /\ c_obj' = [c_obj EXCEPT ![c_ref[k]] = call.it]
              /\ Called_("next", k, call.rc, Cursor(k), Followed(k))
    /\ UNCHANGED <<c_kind, c_size, c_head, c_tail, c_mem, c_live, c_ref,
                   notCurVars>>

CurPrev(k) ==
    /\ \E left \in Reads(Cursor(k)) :
          LET call == iterator_prev(Seen(left), Cursor(k))
          IN  /\ c_obj' = [c_obj EXCEPT ![c_ref[k]] = call.it]
              /\ Called_("prev", k, call.rc, Cursor(k), Followed(k))
    /\ UNCHANGED <<c_kind, c_size, c_head, c_tail, c_mem, c_live, c_ref,
                   notCurVars>>

Modified(op, rc) ==
    /\ Called_(op, 1, rc, Cursor(1), NoTwin)
    /\ UNCHANGED <<c_kind, c_obj, c_ref, notCurVars>>

\* vector_push_back, the array having room or being enlarged.
CurVectorPush ==
    /\ c_kind = "vector"
    /\ c_size < MaxNodes
    /\ c_size' = c_size + 1
    /\ Modified("push", CSTL_OK)
    /\ UNCHANGED <<c_head, c_tail, c_mem, c_live>>

\* vector_pop_back on a non-empty vector.
CurVectorPop ==
    /\ c_kind = "vector"
    /\ c_size > 0
    /\ c_size' = c_size - 1
    /\ Modified("pop", CSTL_OK)
    /\ UNCHANGED <<c_head, c_tail, c_mem, c_live>>

\* list_push_back: the allocator returns any block that is not in use.
CurListPush ==
    /\ c_kind = "list"
    /\ \E node \in NodeAddrs \ c_live :
          LET created == [c_mem EXCEPT ![node] = [prev |-> c_tail, next |-> NULL,
                                                   data |-> node_data(node)]]
          IN  /\ c_mem' = IF c_tail # NULL
                          THEN [created EXCEPT ![c_tail].next = node]
                          ELSE created
              /\ c_head' = IF c_tail # NULL THEN c_head ELSE node
              /\ c_tail' = node
              /\ c_live' = c_live \cup {node}
    /\ c_size' = c_size + 1
    /\ Modified("push", CSTL_OK)

\* list_pop_back on a non-empty list: the tail node is unlinked and freed.
CurListPop ==
    /\ c_kind = "list"
    /\ c_tail # NULL
    /\ LET node == c_tail
           tail == c_mem[node].prev
           unlinked == IF tail # NULL THEN [c_mem EXCEPT ![tail].next = NULL]
                                      ELSE c_mem
       IN  /\ c_tail' = tail
           /\ c_head' = IF tail # NULL THEN c_head ELSE NULL
           /\ c_mem' = [unlinked EXCEPT ![node] = Unused]
           /\ c_live' = c_live \ {node}
    /\ c_size' = c_size - 1
    /\ Modified("pop", CSTL_OK)

CursorInit ==
    /\ OthersIdle({"cursor"})
    /\ c_kind \in {"vector", "list"}
    /\ c_size = 0 /\ c_head = NULL /\ c_tail = NULL
    /\ c_mem = [a \in NodeAddrs |-> Unused]
    /\ c_live = {}
    /\ c_obj = [k \in Iters |-> container_begin]
    /\ c_ref = [k \in Iters |-> k]
    /\ c_last = [op |-> "begin", k |-> 1, rc |-> CSTL_OK, was |-> c_obj[1],
                 twin |-> NoTwin]

CursorNext ==
    \/ \E k \in Iters : CurBegin(k)
    \/ \E k \in Iters : CurEnd(k)
    \/ \E k, j \in Iters : CurClone(k, j)
    \/ \E k \in Iters : CurNext(k)
    \/ \E k \in Iters : CurPrev(k)
    \/ CurVectorPush
    \/ CurVectorPop
    \/ CurListPush
    \/ CurListPop

SpecCursor == CursorInit /\ [][CursorNext]_vars

\* The iterator the last call returned or moved.
Moved == Cursor(c_last.k)

\* C11: on a freshly created empty vector or list, the iterator that begin
\* returns is not valid and compares equal to the iterator that end returns.
C11_EmptyBeginIsEnd ==
    c_size = 0 =>
        /\ c_last.op = "begin" =>
              ~ iterator_valid(Moved) /\ iterator_equal(Moved, container_end)
        /\ c_last.op = "end" =>
              ~ iterator_valid(container_begin)
                  /\ iterator_equal(container_begin, Moved)

\* end was called on the empty list after begin was: the two iterators are
\* equal and the one of begin is not valid.
C11_Witness ==
    /\ c_size = 0 /\ c_kind = "list"
    /\ c_last.op = "end" /\ c_last.k = 2
    /\ Cursor(1) = container_begin
    /\ ~ iterator_valid(Cursor(1))
    /\ iterator_equal(Cursor(1), Cursor(2))

\* C12: after c = iterator_clone(it), whatever iterator_next and
\* iterator_prev calls are made on c, it stays where it was: it is valid or
\* not as before and iterator_get on it yields the same element.
C12_CloneMovesLeaveOriginal ==
    c_last.twin.clone # 0 =>
        LET it == Cursor(c_last.twin.of)
            orig == c_last.twin.orig
        IN  /\ Position(it) = Position(orig)
            /\ iterator_valid(it) = iterator_valid(orig)
            /\ iterator_get(c_mem, it) = iterator_get(c_mem, orig)
            /\ iterator_equal(it, orig)

\* The clone of a vector's begin iterator was advanced twice, to the end;
\* the original is still at the first element.
C12_Witness ==
    /\ c_kind = "vector"
    /\ c_last.twin.clone = 2 /\ c_last.op = "next" /\ c_last.rc = CSTL_OK
    /\ Position(Cursor(2)) = 2
    /\ Position(Cursor(1)) = 0 /\ iterator_valid(Cursor(1))

\* C13: the iterator that iterator_clone returns, for an iterator of a
\* vector or of a list, stands where the original stands: the two compare
\* equal under iterator_equal, are both valid or both not, yield the same
\* element, and one more iterator_next or iterator_prev on each leaves them
\* at the same position with the same result.
C13_CloneSamePosition ==
    c_last.op = "clone" =>
        LET clone == Cursor(c_last.k)
            orig == Cursor(c_last.twin.of)
        IN  /\ iterator_equal(clone, orig)
            /\ iterator_valid(clone) = iterator_valid(orig)
            /\ iterator_get(c_mem, clone) = iterator_get(c_mem, orig)
            /\ \A left \in Reads(clone) :
                  LET a == iterator_next(Seen(left), clone)
                      b == iterator_next(Seen(left), orig)
                  IN  a.rc = b.rc /\ Position(a.it) = Position(b.it)
            /\ \A left \in Reads(clone) :
                  LET a == iterator_prev(Seen(left), clone)
                      b == iterator_prev(Seen(left), orig)
                  IN  a.rc = b.rc /\ Position(a.it) = Position(b.it)

\* C14: iterator_next and iterator_prev on an iterator of a vector or of a
\* list either move it exactly one logical position and return CSTL_OK or,
\* when there is no such position (iterator_next past the last element,
\* iterator_prev at the first element), return CSTL_ERROR_ITERATOR_END and
\* leave it where it is.
C14_MoveOneOrIteratorEnd ==
    LET before == Position(c_last.was)
        after == Position(Moved)
    IN  /\ c_last.op = "next" /\ before >= 0 =>
              IF before = c_size
              THEN c_last.rc = CSTL_ERROR_ITERATOR_END /\ after = before
              ELSE c_last.rc = CSTL_OK /\ after = before + 1
        /\ c_last.op = "prev" /\ before >= 0 =>
              IF before = 0
              THEN c_last.rc = CSTL_ERROR_ITERATOR_END /\ after = before
              ELSE c_last.rc = CSTL_OK /\ after = before - 1

\* C15: for every iterator of a vector or of a list, wherever it stands and
\* also after the container has grown or shrunk since, iterator_valid
\* returns non-zero exactly when iterator_get on it returns CSTL_OK.
C15_ValidIffGetSucceeds ==
    \A k \in Iters :
        \A left \in Reads(Cursor(k)) :
            iterator_valid(Cursor(k)) <=>
                iterator_get(Seen(left), Cursor(k)).rc = CSTL_OK

\* An iterator at the only element of a vector after vector_pop_back: it
\* still points at the array, is no longer valid and iterator_get fails.
C15_Witness ==
    /\ c_kind = "vector" /\ c_last.op = "pop" /\ c_size = 0
    /\ Cursor(1).index = 0 /\ Cursor(1).current # NULL
    /\ ~ iterator_valid(Cursor(1))
    /\ iterator_get(c_mem, Cursor(1)).rc = CSTL_ERROR_ITERATOR_END

\* C16: algo_sort returns CSTL_ERROR_NULL_POINTER when begin, end or the
\* comparator is NULL, and CSTL_ERROR_INVALID_ARGUMENT when the algorithm
\* is none of the four of sort_algorithm_t; in both cases the elements of
\* the range are as they were.
C16_SortRejectsBadArguments ==
    s_pc = "done" /\ s_call = "algo_sort" =>
        /\ s_null # {} =>
              s_rc = CSTL_ERROR_NULL_POINTER /\ s_vec = s_orig
        /\ s_null = {} /\ s_algo \notin FourAlgorithms =>
              s_rc = CSTL_ERROR_INVALID_ARGUMENT /\ s_vec = s_orig

\* algo_sort was called on an unsorted vector with a NULL comparator.
C16_Witness ==
    /\ s_pc = "done" /\ s_call = "algo_sort"
    /\ s_null = {"compare"} /\ s_algo = SORT_QUICK
    /\ Len(s_orig) >= 2 /\ ~ IsNonDecreasing(s_orig)
    /\ s_rc = CSTL_ERROR_NULL_POINTER /\ s_vec = s_orig

\* The call asked for the allocation that fails.
AllocationFailed == s_fail > 0 /\ s_made >= s_fail

\* C17: when a step inside a sort fails (here: an allocation of a pivot, a
\* key, a swap temporary or a merge buffer returns NULL, in the outermost
\* call or in a recursive one), algo_sort returns that error,
\* CSTL_ERROR_OUT_OF_MEMORY, and not CSTL_OK.
C17_SortReturnsFirstError ==
    /\ s_pc = "done" /\ s_call = "algo_sort" /\ s_null = {}
    /\ s_algo \in FourAlgorithms /\ AllocationFailed
    => s_rc = CSTL_ERROR_OUT_OF_MEMORY

\* C18: mem_pool_alloc goes to the allocator only when the free list is
\* empty; it then asks for grow_size blocks at once, returns the first and
\* leaves on the free list the extra blocks the allocator supplied, at most
\* grow_size - 1; it returns NULL exactly when the first block was refused,
\* however many of the extra blocks were refused.
C18_BurstOnEmptyFreeList ==
    \A t \in Threads :
        LET b == mp_burst[t]
        IN  /\ mp_pc[t] = "alloc_grow" => mp_head = NULL
            /\ mp_pc[t] = "alloc_pop" => b.asked = 0
            /\ mp_pc[t] \in {"alloc_count", "alloc_unlock"} /\ b.asked > 0 =>
                  /\ b.asked = mp_grow
                  /\ b.first # NULL /\ b.first = mp_block[t]
                  /\ b.extras <= mp_grow - 1
                  /\ FreeList = b.first + 1 .. b.first + b.extras
            /\ mp_pc[t] = "idle" /\ b.asked > 0 =>
                  /\ b.ret = NULL <=> b.first = NULL
                  /\ b.ret = b.first

\* A pool that grows by two blocks at a time: the allocator supplied the
\* first block and refused the extra one, and the call returned the first.
C18_Witness ==
    /\ mp_grow = 2
    /\ mp_pc[1] = "idle"
    /\ mp_burst[1].asked = 2 /\ mp_burst[1].extras = 0
    /\ mp_burst[1].ret # NULL /\ mp_burst[1].ret \in mp_held[1]

\* C19: obj_pool_free pushes the object onto the free-pointer array when
\* count < capacity; otherwise it destroys and releases the object without
\* enlarging the array: no call of obj_pool_free changes capacity.
C19_FreeNeverGrowsArray ==
    op_last.op = "free" =>
        /\ op_cap = op_last.capacity
        /\ IF op_last.count < op_last.capacity
           THEN op_list[op_last.count + 1] = op_last.ret
                    /\ op_last.ret \notin op_gone
           ELSE count = op_last.count /\ op_last.ret \in op_gone

\* C20: obj_pool_create (like mem_pool_create) returns a pool only when the
\* first burst of allocations, the initial_size objects it pre-allocates,
\* did not fail: a pool that was returned holds pre-allocated objects.
C20_CreateFailsWithFirstBurst ==
    op_last.op = "create" => op_made > 0 /\ count = op_made

-----------------------------------------------------------------------------
(* The same algorithm over a vector and over a list *)

BothSorted == s_pc # "ready" /\ s_list.pc # "ready"

\* C21: for every algorithm selector, algo_sort over [list_begin, list_end)
\* of a doubly-linked list returns the same code and leaves the same
\* sequence of elements as algo_sort over [vector_begin, vector_end) of a
\* vector that held the same sequence.
C21_ListSortsAsVector ==
    BothSorted =>
        /\ s_pc = "done" /\ s_list.pc = "done"
        /\ s_list.rc = s_rc
        /\ s_list.v = s_vec

-----------------------------------------------------------------------------
(* SpecVecSeq: one vector without thread safety, created by                *)
(* vector_create(element_size, initial_capacity, NULL, NULL), and a single *)
(* caller that appends, removes, inserts, erases, reserves, resizes and    *)
(* clears, and attaches or removes a memory pool.  The allocator may       *)
(* refuse any request.                                                     *)

\* The memory pool the caller attaches.
MEM_POOL == 1

\* What a call did: heap counts the requests it made to vector->allocator
\* (allocate or reallocate), pool the blocks it took with mem_pool_alloc.
\* ok: whether the allocator supplies what it is asked for.
vector_ensure_capacity(capacity, mem_pool, min_capacity, ok) ==
    IF capacity >= min_capacity
    THEN [rc |-> CSTL_OK, capacity |-> capacity, heap |-> 0, pool |-> 0]
    ELSE IF mem_pool # NULL
    THEN \* allocator->allocate, memcpy, allocator->deallocate
         IF ok THEN [rc |-> CSTL_OK, capacity |-> vector_new_capacity(capacity),
                     heap |-> 1, pool |-> 0]
               ELSE [rc |-> CSTL_ERROR_OUT_OF_MEMORY, capacity |-> capacity,
                     heap |-> 1, pool |-> 0]
    ELSE \* allocator->reallocate
         IF ok THEN [rc |-> CSTL_OK, capacity |-> vector_new_capacity(capacity),
                     heap |-> 1, pool |-> 0]
               ELSE [rc |-> CSTL_ERROR_OUT_OF_MEMORY, capacity |-> capacity,
                     heap |-> 1, pool |-> 0]

NoStorage == [heap |-> 0, pool |-> 0]

VsCalled(op, rc, e) ==
    q_last' = [op |-> op, rc |-> rc, heap |-> e.heap, pool |-> e.pool,
               mem_pool |-> q_pool]

\* vector_push_back(vector, &element)
VsPushBack ==
    /\ q_size < MaxVecSize
    /\ \E ok \in BOOLEAN :
          LET e == vector_ensure_capacity(q_cap, q_pool, q_size + 1, ok)
          IN  /\ q_cap' = e.capacity
              /\ q_size' = IF e.rc = CSTL_OK THEN q_size + 1 ELSE q_size
              /\ VsCalled("push_back", e.rc, e)
    /\ UNCHANGED <<q_pool, notVecSeqVars>>

\* vector_pop_back(vector)
VsPopBack ==
    /\ IF q_size = 0
       THEN /\ VsCalled("pop_back", CSTL_ERROR_CONTAINER_EMPTY, NoStorage)
            /\ UNCHANGED q_size
       ELSE /\ VsCalled("pop_back", CSTL_OK, NoStorage)
            /\ q_size' = q_size - 1
    /\ UNCHANGED <<q_cap, q_pool, notVecSeqVars>>

\* vector_insert(vector, index, &element)
VsInsert ==
    /\ q_size < MaxVecSize
    /\ \E index \in {0, q_size, q_size + 1}, ok \in BOOLEAN :
          IF index > q_size
          THEN /\ VsCalled("insert", CSTL_ERROR_INVALID_INDEX, NoStorage)
               /\ UNCHANGED <<q_cap, q_size>>
          ELSE LET e == vector_ensure_capacity(q_cap, q_pool, q_size + 1, ok)
               IN  /\ q_cap' = e.capacity
                   /\ q_size' = IF e.rc = CSTL_OK THEN q_size + 1 ELSE q_size
                   /\ VsCalled("insert", e.rc, e)
    /\ UNCHANGED <<q_pool, notVecSeqVars>>

\* vector_erase(vector, index)
VsErase ==
    /\ \E index \in {0, q_size} :
          IF index >= q_size
          THEN /\ VsCalled("erase", CSTL_ERROR_INVALID_INDEX, NoStorage)
               /\ UNCHANGED q_size
          ELSE /\ VsCalled("erase", CSTL_OK, NoStorage)
               /\ q_size' = q_size - 1
    /\ UNCHANGED <<q_cap, q_pool, notVecSeqVars>>

\* vector_reserve(vector, new_capacity)
VsReserve ==
    /\ \E min_capacity \in 0 .. MaxVecSize, ok \in BOOLEAN :
          LET e == vector_ensure_capacity(q_cap, q_pool, min_capacity, ok)
          IN  /\ q_cap' = e.capacity
              /\ VsCalled("reserve", e.rc, e)
    /\ UNCHANGED <<q_size, q_pool, notVecSeqVars>>

\* vector_resize(vector, new_size): after vector_ensure_capacity returned
\* CSTL_OK the size becomes new_size, the new elements zeroed.
VsResize ==
    /\ \E new_size \in 0 .. MaxVecSize, ok \in BOOLEAN :
          LET e == vector_ensure_capacity(q_cap, q_pool, new_size, ok)
          IN  /\ q_cap' = e.capacity
              /\ q_size' = IF e.rc = CSTL_OK THEN new_size ELSE q_size
              /\ VsCalled("resize", e.rc, e)
    /\ UNCHANGED <<q_pool, notVecSeqVars>>

\* vector_clear(vector): the array is released, data = NULL.
VsClear ==
    /\ q_size' = 0
    /\ q_cap' = 0
    /\ VsCalled("clear", CSTL_OK, NoStorage)
    /\ UNCHANGED <<q_pool, notVecSeqVars>>

\* vector_set_memory_pool(vector, mem_pool)
VsSetMemoryPool ==
    /\ q_pool' = MEM_POOL
    /\ VsCalled("set_memory_pool", CSTL_OK, NoStorage)
    /\ UNCHANGED <<q_cap, q_size, notVecSeqVars>>

\* vector_remove_memory_pool(vector)
VsRemoveMemoryPool ==
    /\ q_pool' = NULL
    /\ VsCalled("remove_memory_pool", CSTL_OK, NoStorage)
    /\ UNCHANGED <<q_cap, q_size, notVecSeqVars>>

\* vector_init: size 0, the capacity asked for, no memory pool.
VecSeqInit ==
    /\ OthersIdle({"vecseq"})
    /\ q_cap \in 0 .. MaxInitCap
    /\ q_size = 0
    /\ q_pool = NULL
    /\ q_last = [op |-> "create", rc |-> CSTL_OK, heap |-> 1, pool |-> 0,
                 mem_pool |-> NULL]

VecSeqNext ==
    \/ VsPushBack
    \/ VsPopBack
    \/ VsInsert
    \/ VsErase
    \/ VsReserve
    \/ VsResize
    \/ VsClear
    \/ VsSetMemoryPool
    \/ VsRemoveMemoryPool

SpecVecSeq == VecSeqInit /\ [][VecSeqNext]_vars

\* The last call made the vector acquire storage while a pool was attached.
GrewWithPool ==
    /\ q_last.op \in {"push_back", "insert", "reserve", "resize"}
    /\ q_last.rc = CSTL_OK
    /\ q_last.heap + q_last.pool > 0
    /\ q_last.mem_pool # NULL

\* C22: after vector_set_memory_pool attached a memory pool, the storage the
\* vector acquires when it grows is taken from that pool, whose count of
\* allocated blocks rises, and not from the general allocator.
C22_GrowthFromAttachedPool ==
    GrewWithPool => q_last.pool > 0 /\ q_last.heap = 0

-----------------------------------------------------------------------------
(* SpecListMerge: two lists with thread safety enabled, and threads that   *)
(* each call list_merge once: the odd threads list_merge(A, B), the even   *)
(* ones list_merge(B, A).  The statements of list_merge are steps of their *)
(* own; a thread waits at list_lock while another thread holds the mutex.  *)

Lists == {"A", "B"}

\* The mutex of a list after list_enable_thread_safety: its final
\* list_unlock unlocks a mutex that was initialised and never locked, which
\* is undefined; the mutex is left free, or in a state no thread can take
\* it from.
list_enable_thread_safety == {0, NThreads + 1}

list_lock(t, l) == lm_lock[l] = 0 /\ lm_lock' = [lm_lock EXCEPT ![l] = t]
list_unlock(t, l) == lm_lock' = [lm_lock EXCEPT ![l] = 0]

list1(t) == lm_arg[t][1]
list2(t) == lm_arg[t][2]

MGoto(t, label) == lm_pc' = [lm_pc EXCEPT ![t] = label]

\* list_merge(list1, list2): the NULL checks pass
MergeCall(t) ==
    /\ lm_pc[t] = "idle"
    /\ MGoto(t, "lock1")
    /\ UNCHANGED <<lm_lock, lm_size, lm_arg, notMergeVars>>

\* list_lock(list1)
MergeLock1(t) ==
    /\ lm_pc[t] = "lock1"
    /\ list_lock(t, list1(t))
    /\ MGoto(t, "lock2")
    /\ UNCHANGED <<lm_size, lm_arg, notMergeVars>>

\* list_lock(list2)
MergeLock2(t) ==
    /\ lm_pc[t] = "lock2"
    /\ list_lock(t, list2(t))
    /\ MGoto(t, "splice")
    /\ UNCHANGED <<lm_size, lm_arg, notMergeVars>>

\* list2 empty: nothing to do; else its nodes go to the end of list1.
MergeSplice(t) ==
    /\ lm_pc[t] = "splice"
    /\ lm_size' = IF lm_size[list2(t)] = 0 THEN lm_size
                  ELSE [lm_size EXCEPT ![list1(t)] = @ + lm_size[list2(t)],
                                       ![list2(t)] = 0]
    /\ MGoto(t, "unlock2")
    /\ UNCHANGED <<lm_lock, lm_arg, notMergeVars>>

\* list_unlock(list2)
MergeUnlock2(t) ==
    /\ lm_pc[t] = "unlock2"
    /\ list_unlock(t, list2(t))
    /\ MGoto(t, "unlock1")
    /\ UNCHANGED <<lm_size, lm_arg, notMergeVars>>

\* list_unlock(list1); return CSTL_OK
MergeUnlock1(t) ==
    /\ lm_pc[t] = "unlock1"
    /\ list_unlock(t, list1(t))
    /\ MGoto(t, "returned")
    /\ UNCHANGED <<lm_size, lm_arg, notMergeVars>>

ListMergeInit ==
    /\ OthersIdle({"merge"})
    /\ lm_lock \in [Lists -> list_enable_thread_safety]
    /\ lm_size \in [Lists -> 0 .. MaxNodes]
    /\ lm_arg = [t \in Threads |-> IF t % 2 = 1 THEN <<"A", "B">>
                                               ELSE <<"B", "A">>]
    /\ lm_pc = [t \in Threads |-> "idle"]

MergeStep(t) ==
    \/ MergeCall(t)
    \/ MergeLock1(t)
    \/ MergeLock2(t)
    \/ MergeSplice(t)
    \/ MergeUnlock2(t)
    \/ MergeUnlock1(t)

ListMergeNext ==
    \/ \E t \in Threads : MergeCall(t)
    \/ \E t \in Threads : MergeLock1(t)
    \/ \E t \in Threads : MergeLock2(t)
    \/ \E t \in Threads : MergeSplice(t)
    \/ \E t \in Threads : MergeUnlock2(t)
    \/ \E t \in Threads : MergeUnlock1(t)

\* Every thread that can take a step is scheduled in the end.
SpecListMerge ==
    /\ ListMergeInit
    /\ [][ListMergeNext]_vars
    /\ \A t \in Threads : WF_vars(MergeStep(t))

MutexesFree == \A l \in Lists : lm_lock[l] = 0
AllReturned == \A t \in Threads : lm_pc[t] = "returned"

\* C23: with thread safety enabled on lists A and B, concurrent calls
\* list_merge(A, B) and list_merge(B, A) from different threads both
\* return: no interleaving leaves the threads waiting for each other's
\* list mutex for ever.
C23_OpposedMergesReturn == MutexesFree => <>AllReturned

-----------------------------------------------------------------------------
(* C24: termination of algo_sort on a vector range *)

\* All keys equal: the order on which quick sort recurses deepest.
AllEqual(v) == \A i, j \in DOMAIN v : v[i][1] = v[j][1]

\* C24: every algo_sort call on a vector range returns, for each of the four
\* algorithms and every order of the input (all-equal, ascending and
\* descending included): the call ends by returning, never by exhausting the
\* stack, and the recursion of quick sort and merge sort is never deeper
\* than the range is long.
C24_SortTerminates ==
    (s_call = "algo_sort" /\ s_algo \in FourAlgorithms) =>
        /\ s_pc = "done"
        /\ s_deep < Max(1, Len(s_orig))

\* Quick sort has returned from its deepest recursion, one frame for each
\* element but the last, on a vector of three or more equal keys.
C24_Witness ==
    /\ s_call = "algo_sort" /\ s_pc = "done" /\ s_null = {}
    /\ s_algo = SORT_QUICK
    /\ Len(s_orig) >= 3
    /\ AllEqual(s_orig)
    /\ s_deep = Len(s_orig) - 1

-----------------------------------------------------------------------------
(* The range algorithms of algo.c on a vector: algo_reverse,               *)
(* algo_next_permutation, algo_starts_with, algo_partition and             *)
(* algo_is_partitioned.  The callers pass iterators and outputs that are   *)
(* not NULL and no malloc fails.                                            *)
(*                                                                         *)
(* algo_reverse frees the iterators it goes on using: left and left_next   *)
(* are one block, and so are right and right_prev, and both are destroyed  *)
(* at the end of each turn of the loop (algo.c:2346-2359), read again by   *)
(* the loop condition and destroyed again after the loop (algo.c:2362).    *)
(* What follows is undefined; ub is what the build does: "stale", a freed  *)
(* block keeps its contents and freeing it again goes unnoticed, or        *)
(* "abort", the process is ended at the first use of a freed block.        *)

Builds == {"stale", "abort"}

\* The iterator k calls of iterator_next after vector_begin; vector_end
\* itself when that is the end of the vector.
At(m, k) ==
    IF k = Size(m) /\ Size(m) > 0 THEN vector_end(VEC, Size(m))
    ELSE advance(m, vector_begin(VEC, Size(m)), k)

\* while (iterator_valid(left) && iterator_valid(right)) { ... }
RECURSIVE reverse_loop(_, _, _, _)
reverse_loop(m, ub, left, right) ==
    LET size == Size(m)
    IN  IF Valid_(m, left) /\ Valid_(m, right)
        THEN LET swapped == algo_swap(m, Data_(m, left), Data_(m, right))
                 left_next == Next_(m, Clone_(m, left))
                 right_prev == Prev_(m, Clone_(m, right))
             IN  \* left = left_next; right = right_prev: on both paths
                 \* the two are destroyed and then used
                 IF ub = "abort" THEN [m |-> Fault(swapped), rc |-> CSTL_OK]
                 ELSE IF iterator_equal(left_next, right_prev)
                      THEN [m |-> swapped, rc |-> CSTL_OK]
                      ELSE reverse_loop(swapped, ub, left_next, right_prev)
        ELSE [m |-> m, rc |-> CSTL_OK]

algo_reverse(m, ub, begin, end) ==
    LET size == Size(m)
        temp == Clone_(m, begin)
    IN  IF ~Valid_(m, temp) \/ iterator_equal(temp, end)
        THEN [m |-> m, rc |-> CSTL_OK]
        ELSE reverse_loop(m, ub, Clone_(m, begin), Prev_(m, Clone_(m, end)))

\* The ranges [lo, hi) of a vector of `size` elements.
Ranges(size) == {r \in (0 .. size) \X (0 .. size) : r[1] <= r[2]}

AlgoMem ==
    [v |-> a_vec, n |-> 0, failAt |-> 0, mem |-> <<>>, junk |-> NULL,
     fault |-> FALSE, depth |-> 0, deep |-> 0]

Begin == At(AlgoMem, a_range[1])
End == At(AlgoMem, a_range[2])

NoCall == [call |-> "none", rc |-> CSTL_OK, out |-> 0, before |-> a_orig]

\* What a call leaves: the vector, whether the call returned ("done"),
\* ended the process ("crashed") or loops for ever ("hung"), the record of
\* the call.
AlgoCalled(call, r, out) ==
    /\ a_vec' = r.m.v
    /\ a_pc' = IF r.m.fault THEN "crashed"
              ELSE IF "hang" \in DOMAIN r /\ r.hang THEN "hung" ELSE "done"
    /\ a_last' = [call |-> call, rc |-> r.rc, out |-> out, before |-> a_vec]
    /\ a_calls' = a_calls + 1
    /\ UNCHANGED <<a_orig, a_range, a_range2, a_pred, a_ub, notAlgoVars>>

ReverseInit ==
    /\ OthersIdle({"algo"})
    /\ a_pc = "ready"
    /\ a_orig \in SortInputs
    /\ a_vec = a_orig
    /\ a_range \in Ranges(Len(a_orig))
    /\ a_range2 = <<0, 0>>
    /\ a_pred = {}
    /\ a_ub \in Builds
    /\ a_last = NoCall
    /\ a_calls = 0

\* algo_reverse(begin, end)
ReverseCall ==
    /\ a_pc = "ready"
    /\ AlgoCalled("algo_reverse", algo_reverse(AlgoMem, a_ub, Begin, End), 0)

ReverseNext == ReverseCall

SpecReverse == ReverseInit /\ [][ReverseNext]_vars

\* v with the elements of [lo, hi) in reverse order, the rest in place.
Reversed(v, lo, hi) ==
    [i \in 1 .. Len(v) |-> IF lo < i /\ i <= hi THEN v[lo + hi + 1 - i] ELSE v[i]]

\* C25: algo_reverse over [begin, end) returns with the range holding its
\* original elements in exactly reverse order, whatever the length of the
\* range (0, 1, even or odd), and every element outside the range unchanged.
C25_ReverseReverses ==
    a_last.call = "algo_reverse" =>
        /\ a_pc = "done"
        /\ a_last.rc = CSTL_OK
        /\ a_vec = Reversed(a_orig, a_range[1], a_range[2])

-----------------------------------------------------------------------------
(* algo_next_permutation, called again and again on a whole vector *)

MaxPermCalls == 7  \* calls of algo_next_permutation in a row (3! + 1)

\* while (j > i): the last element after i that is greater than the one at
\* i - 1 is exchanged with it and the range from i on is reversed.
RECURSIVE next_permutation_swap(_, _, _, _, _, _)
next_permutation_swap(m, ub, begin, end, i, j) ==
    IF j > i
    THEN LET element_i_minus_1 == get_element_at_index(m, begin, i - 1)
             element_j == get_element_at_index(m, begin, j)
         IN  IF compare_int(Load(m, element_j), Load(m, element_i_minus_1)) > 0
             THEN LET swapped == algo_swap(m, element_i_minus_1, element_j)
                      suffix_begin == advance(m, Clone_(m, begin), i)
                  IN  [m |-> algo_reverse(swapped, ub, suffix_begin,
                                          Clone_(m, end)).m,
                       result |-> 1]
             ELSE next_permutation_swap(m, ub, begin, end, i, j - 1)
    ELSE [m |-> m, result |-> 0]

\* while (i > 0): from the end, the first i whose element is greater than
\* the one before it; when the inner loop finds nothing the search goes on.
RECURSIVE next_permutation_scan(_, _, _, _, _, _)
next_permutation_scan(m, ub, begin, end, size, i) ==
    IF i > 0
    THEN LET element_i == get_element_at_index(m, begin, i)
             element_i_minus_1 == get_element_at_index(m, begin, i - 1)
             inner == IF compare_int(Load(m, element_i_minus_1),
                                     Load(m, element_i)) < 0
                      THEN next_permutation_swap(m, ub, begin, end, i, size - 1)
                      ELSE [m |-> m, result |-> 0]
         IN  IF inner.result = 1
             THEN [m |-> inner.m, rc |-> CSTL_OK, result |-> 1]
             ELSE next_permutation_scan(m, ub, begin, end, size, i - 1)
    \* the last permutation: the whole range is reversed
    ELSE [m |-> algo_reverse(m, ub, begin, end).m, rc |-> CSTL_OK, result |-> 0]

algo_next_permutation(m, ub, begin, end) ==
    LET temp == Clone_(m, begin)
        size == range_size(m, Clone_(m, begin), end)
    IN  IF ~Valid_(m, temp) \/ iterator_equal(temp, end)
        THEN [m |-> m, rc |-> CSTL_OK, result |-> 0]
        ELSE IF size <= 1
        THEN [m |-> m, rc |-> CSTL_OK, result |-> 0]
        ELSE next_permutation_scan(m, ub, begin, end, size, size - 1)

PermuteInit ==
    /\ OthersIdle({"algo"})
    /\ a_pc = "ready"
    /\ a_orig \in SortInputs
    /\ a_vec = a_orig
    /\ a_range = <<0, Len(a_orig)>>
    /\ a_range2 = <<0, 0>>
    /\ a_pred = {}
    /\ a_ub \in Builds
    /\ a_last = NoCall
    /\ a_calls = 0

\* algo_next_permutation(vector_begin(v), vector_end(v), compare_int, &result)
NextPermutationCall ==
    /\ a_pc \in {"ready", "done"}
    /\ a_calls < MaxPermCalls
    /\ LET r == algo_next_permutation(AlgoMem, a_ub, Begin, End)
       IN  AlgoCalled("algo_next_permutation", r, r.result)

PermuteNext == NextPermutationCall

SpecPermute == PermuteInit /\ [][PermuteNext]_vars

StrictlyAscending(v) == \A i, j \in DOMAIN v : i < j => v[i][1] < v[j][1]

StrictlyDescending(v) == \A i, j \in DOMAIN v : i < j => v[i][1] > v[j][1]

\* v comes before w in the lexicographic order of the keys.
LexLess(v, w) ==
    \E k \in DOMAIN v : /\ \A i \in 1 .. k - 1 : v[i][1] = w[i][1]
                        /\ v[k][1] < w[k][1]

Rearrangements(v) ==
    {[i \in DOMAIN v |-> v[p[i]]] :
        p \in {q \in [DOMAIN v -> DOMAIN v] : \A i, j \in DOMAIN v :
                                                  q[i] = q[j] => i = j}}

\* w is the permutation of v that follows v in the lexicographic order.
IsNextPermutation(v, w) ==
    /\ w \in Rearrangements(v)
    /\ LexLess(v, w)
    /\ ~ \E u \in Rearrangements(v) : LexLess(v, u) /\ LexLess(u, w)

\* C26: starting from a strictly ascending vector, every call of
\* algo_next_permutation returns with result = 1 and the lexicographically
\* next permutation in the range, so the calls go through all the n!
\* permutations once each; only the call made on the last, descending,
\* permutation returns result = 0, with the range back at the first one.
C26_NextPermutationVisitsAll ==
    (a_last.call = "algo_next_permutation" /\ StrictlyAscending(a_orig)) =>
        /\ a_pc = "done"
        /\ a_last.rc = CSTL_OK
        /\ IF StrictlyDescending(a_last.before)
           THEN a_last.out = 0 /\ a_vec = a_orig
           ELSE a_last.out = 1 /\ IsNextPermutation(a_last.before, a_vec)

-----------------------------------------------------------------------------
(* algo_starts_with on two ranges of one vector *)

\* while (iterator_valid(iter2) && !iterator_equal(iter2, end2)) { ... }
RECURSIVE starts_with_loop(_, _, _, _)
starts_with_loop(m, iter1, iter2, end2) ==
    LET size == Size(m)
    IN  IF Valid_(m, iter2) /\ ~iterator_equal(iter2, end2)
        THEN IF compare_int(Get(m, iter1), Get(m, iter2)) # 0
             THEN 0
             ELSE starts_with_loop(m, Next_(m, iter1), Next_(m, iter2),
                                   end2)
        ELSE 1

algo_starts_with(m, begin1, end1, begin2, end2) ==
    LET size1 == range_size(m, Clone_(m, begin1), end1)
        size2 == range_size(m, Clone_(m, begin2), end2)
    IN  IF size1 < size2
        THEN [m |-> m, rc |-> CSTL_OK, is_prefix |-> 0]
        ELSE [m |-> m, rc |-> CSTL_OK,
              is_prefix |-> starts_with_loop(m, Clone_(m, begin1),
                                             Clone_(m, begin2), end2)]

Begin2 == At(AlgoMem, a_range2[1])
End2 == At(AlgoMem, a_range2[2])

StartsWithInit ==
    /\ OthersIdle({"algo"})
    /\ a_pc = "ready"
    /\ a_orig \in SortInputs
    /\ a_vec = a_orig
    /\ a_range \in Ranges(Len(a_orig))
    /\ a_range2 \in Ranges(Len(a_orig))
    /\ a_pred = {}
    /\ a_ub = "stale"
    /\ a_last = NoCall
    /\ a_calls = 0

\* algo_starts_with(begin1, end1, begin2, end2, compare_int, &is_prefix)
StartsWithCall ==
    /\ a_pc = "ready"
    /\ LET r == algo_starts_with(AlgoMem, Begin, End, Begin2, End2)
       IN  AlgoCalled("algo_starts_with", r, r.is_prefix)

StartsWithNext == StartsWithCall

SpecStartsWith == StartsWithInit /\ [][StartsWithNext]_vars

\* The elements of the range r of v, in order.
InRange(v, r) == [i \in 1 .. r[2] - r[1] |-> v[r[1] + i]]

\* s is no longer than t and its elements compare equal to the first of t.
IsPrefix(s, t) ==
    /\ Len(s) <= Len(t)
    /\ \A i \in DOMAIN s : compare_int(s[i], t[i]) = 0

\* C27: algo_starts_with sets is_prefix to 1 exactly when the first range
\* [begin1, end1) is a prefix of the second range [begin2, end2), and to 0
\* otherwise.
C27_FirstIsPrefixOfSecond ==
    a_last.call = "algo_starts_with" =>
        /\ a_last.rc = CSTL_OK
        /\ a_last.out = 1 <=> IsPrefix(InRange(a_orig, a_range),
                                       InRange(a_orig, a_range2))

-----------------------------------------------------------------------------
(* SpecSwitch: threads call vector_enable_thread_safety,                   *)
(* vector_disable_thread_safety and an operation that locks, works and     *)
(* unlocks (vector_pop_back) on one vector created without thread safety.  *)
(* list_lock, list_unlock, list_enable_thread_safety and                   *)
(* list_disable_thread_safety (list.c:125-142, 952-996) are the same       *)
(* statements on list->thread_safe and list->lock.  mutex_init succeeds.   *)
(* vector_lock and vector_unlock read thread_safe and then call            *)
(* mutex_lock or mutex_unlock: two steps, another thread may run between.  *)

MaxSwitchCalls == 2  \* calls each thread makes

SwitchOps == {"enable", "disable", "pop_back"}

TsGoto(t, label) == ts_pc' = [ts_pc EXCEPT ![t] = label]

\* mutex_unlock by thread t.  Unlocking a mutex the thread does not hold
\* is undefined for a default pthread mutex: the mutex is left as it was,
\* left free, or left so that no thread can take it.
TsMutexUnlock(t) ==
    IF ts_mutex = t
    THEN /\ ts_mutex' = 0
         /\ ts_own' = [ts_own EXCEPT ![t] = @ - 1]
         /\ UNCHANGED ts_stray
    ELSE /\ ts_mutex' \in vector_enable_thread_safety \cup {ts_mutex}
         /\ ts_own' = [ts_own EXCEPT ![t] = IF @ > 0 THEN @ - 1 ELSE 0]
         /\ ts_stray' = IF ts_own[t] > 0 THEN ts_stray
                        ELSE ts_stray \cup {ts_op[t]}

\* A call returns.
TsReturn(t) ==
    /\ TsGoto(t, "idle")
    /\ ts_left' = [ts_left EXCEPT ![t] = @ - 1]
    /\ ts_kept' = IF ts_own'[t] > 0 THEN ts_kept \cup {ts_op[t]} ELSE ts_kept

TsCall(t, op) ==
    /\ ts_pc[t] = "idle" /\ ts_left[t] > 0
    /\ ts_op' = [ts_op EXCEPT ![t] = op]
    /\ TsGoto(t, "lock")
    /\ UNCHANGED <<ts_flag, ts_mutex, ts_own, ts_left, ts_stray, ts_kept,
                   notSwitchVars>>

\* vector_lock: if (vector->thread_safe)
TsLockRead(t) ==
    /\ ts_pc[t] = "lock"
    /\ TsGoto(t, IF ts_flag # 0 THEN "take" ELSE "body")
    /\ UNCHANGED <<ts_flag, ts_mutex, ts_op, ts_own, ts_left, ts_stray,
                   ts_kept, notSwitchVars>>

\* vector_lock: mutex_lock(&vector->lock).  It waits while another thread
\* holds the mutex; on a destroyed mutex it is undefined and returns with
\* the mutex taken or not.
TsLockTake(t) ==
    /\ ts_pc[t] = "take"
    /\ \/ ts_mutex = 0 /\ ts_mutex' = t
       \/ ts_mutex = -1 /\ ts_mutex' \in {-1, t}
    /\ ts_own' = [ts_own EXCEPT ![t] = @ + 1]
    /\ TsGoto(t, "body")
    /\ UNCHANGED <<ts_flag, ts_op, ts_left, ts_stray, ts_kept, notSwitchVars>>

\* vector_enable_thread_safety: if (!vector->thread_safe) mutex_init(...)
TsEnableInit(t) ==
    /\ ts_pc[t] = "body" /\ ts_op[t] = "enable"
    /\ IF ts_flag = 0
       THEN ts_mutex' = 0 /\ TsGoto(t, "set")
       ELSE UNCHANGED ts_mutex /\ TsGoto(t, "unlock")
    /\ UNCHANGED <<ts_flag, ts_op, ts_own, ts_left, ts_stray, ts_kept,
                   notSwitchVars>>

\* vector->thread_safe = 1
TsEnableSet(t) ==
    /\ ts_pc[t] = "set"
    /\ ts_flag' = 1
    /\ TsGoto(t, "unlock")
    /\ UNCHANGED <<ts_mutex, ts_op, ts_own, ts_left, ts_stray, ts_kept,
                   notSwitchVars>>

\* vector_disable_thread_safety: if (vector->thread_safe) thread_safe = 0
TsDisableClear(t) ==
    /\ ts_pc[t] = "body" /\ ts_op[t] = "disable"
    /\ IF ts_flag # 0
       THEN ts_flag' = 0 /\ TsGoto(t, "mutex_unlock")
       ELSE UNCHANGED ts_flag /\ TsGoto(t, "unlock")
    /\ UNCHANGED <<ts_mutex, ts_op, ts_own, ts_left, ts_stray, ts_kept,
                   notSwitchVars>>

\* mutex_unlock(&vector->lock)
TsDisableUnlock(t) ==
    /\ ts_pc[t] = "mutex_unlock"
    /\ TsMutexUnlock(t)
    /\ TsGoto(t, "destroy")
    /\ UNCHANGED <<ts_flag, ts_op, ts_left, ts_kept, notSwitchVars>>

\* mutex_destroy(&vector->lock); return CSTL_OK
TsDisableDestroy(t) ==
    /\ ts_pc[t] = "destroy"
    /\ ts_mutex' = -1
    /\ UNCHANGED ts_own
    /\ TsReturn(t)
    /\ UNCHANGED <<ts_flag, ts_op, ts_stray, notSwitchVars>>

\* The work of vector_pop_back between vector_lock and vector_unlock.
TsPopBody(t) ==
    /\ ts_pc[t] = "body" /\ ts_op[t] = "pop_back"
    /\ TsGoto(t, "unlock")
    /\ UNCHANGED <<ts_flag, ts_mutex, ts_op, ts_own, ts_left, ts_stray,
                   ts_kept, notSwitchVars>>

\* vector_unlock: if (vector->thread_safe)
TsUnlockRead(t) ==
    /\ ts_pc[t] = "unlock"
    /\ IF ts_flag # 0
       THEN /\ TsGoto(t, "release")
            /\ UNCHANGED <<ts_left, ts_kept, ts_own>>
       ELSE UNCHANGED ts_own /\ TsReturn(t)
    /\ UNCHANGED <<ts_flag, ts_mutex, ts_op, ts_stray, notSwitchVars>>

\* vector_unlock: mutex_unlock(&vector->lock), and the call returns
TsUnlockRelease(t) ==
    /\ ts_pc[t] = "release"
    /\ TsMutexUnlock(t)
    /\ TsReturn(t)
    /\ UNCHANGED <<ts_flag, ts_op, notSwitchVars>>

\* vector_create leaves thread_safe 0 and the mutex not initialised.
SwitchInit ==
    /\ OthersIdle({"switch"})
    /\ ts_flag = 0
    /\ ts_mutex = -1
    /\ ts_pc = [t \in Threads |-> "idle"]
    /\ ts_op = [t \in Threads |-> "none"]
    /\ ts_own = [t \in Threads |-> 0]
    /\ ts_left = [t \in Threads |-> MaxSwitchCalls]
    /\ ts_stray = {}
    /\ ts_kept = {}

SwitchNext ==
    \/ \E t \in Threads, op \in SwitchOps : TsCall(t, op)
    \/ \E t \in Threads : TsLockRead(t)
    \/ \E t \in Threads : TsLockTake(t)
    \/ \E t \in Threads : TsEnableInit(t)
    \/ \E t \in Threads : TsEnableSet(t)
    \/ \E t \in Threads : TsDisableClear(t)
    \/ \E t \in Threads : TsDisableUnlock(t)
    \/ \E t \in Threads : TsDisableDestroy(t)
    \/ \E t \in Threads : TsPopBody(t)
    \/ \E t \in Threads : TsUnlockRead(t)
    \/ \E t \in Threads : TsUnlockRelease(t)

SpecSwitch == SwitchInit /\ [][SwitchNext]_vars

\* C28: in every operation of a vector or list, the thread safety switches
\* included and whatever other threads do to the container meanwhile, each
\* unlock of the mutex comes after a lock of it by the same thread that no
\* unlock has matched yet, and each lock is matched by one unlock before the
\* operation returns.
C28_LocksAndUnlocksPair ==
    /\ ts_stray = {}
    /\ ts_kept = {}

-----------------------------------------------------------------------------
(* C29: the size and the capacity of a vector *)

\* C29: after any sequence of vector_push_back, vector_pop_back,
\* vector_insert, vector_erase, vector_reserve, vector_resize and
\* vector_clear calls the size of the vector is at most its capacity, also
\* after a successful vector_resize(n) or vector_reserve(n) with n far above
\* the capacity.
C29_SizeWithinCapacity == q_size <= q_cap

-----------------------------------------------------------------------------
(* algo_partition followed by algo_is_partitioned on a range of a vector.  *)
(* The predicate reads the key of an element: a_pred is the set of the     *)
(* keys for which it returns non-zero.                                     *)

predicate(pred, element) == element[1] \in pred

\* while (iterator_valid(first) && !iterator_equal(first, end)):
\* first moves on to an element for which the predicate holds
RECURSIVE partition_first(_, _, _, _)
partition_first(m, pred, first, end) ==
    IF Valid_(m, first) /\ ~iterator_equal(first, end)
       /\ ~predicate(pred, Get(m, first))
    THEN partition_first(m, pred, Next_(m, first), end)
    ELSE first

\* while (iterator_valid(last) && !iterator_equal(last, begin)):
\* last moves back to an element for which the predicate does not hold
RECURSIVE partition_last(_, _, _, _)
partition_last(m, pred, last, begin) ==
    IF Valid_(m, last) /\ ~iterator_equal(last, begin)
       /\ predicate(pred, Get(m, last))
    THEN \* iterator_prev fails on the first element of the vector and
         \* leaves last on it: the loop then tests the same element for ever
         IF Prev_(m, last) = last THEN [last |-> last, hang |-> TRUE]
         ELSE partition_last(m, pred, Prev_(m, last), begin)
    ELSE [last |-> last, hang |-> FALSE]

\* while (iterator_valid(first)) { ... }
RECURSIVE partition_outer(_, _, _, _, _, _)
partition_outer(m, pred, begin, end, first0, last0) ==
    LET size == Size(m)
    IN  IF ~Valid_(m, first0)
        THEN [m |-> m, first |-> first0, hang |-> FALSE]
        ELSE LET first == partition_first(m, pred, first0, end)
                 back == partition_last(m, pred, last0, begin)
                 last == back.last
             IN  IF back.hang THEN [m |-> m, first |-> first, hang |-> TRUE]
                 ELSE IF \/ ~Valid_(m, first) \/ ~Valid_(m, last)
                         \/ iterator_equal(first, last)
                         \/ iterator_equal(first, end)
                 THEN [m |-> m, first |-> first, hang |-> FALSE]
                 ELSE partition_outer(
                          algo_swap(m, Data_(m, first), Data_(m, last)),
                          pred, begin, end,
                          Next_(m, first), Prev_(m, last))

algo_partition(m, pred, begin, end) ==
    LET size == Size(m)
        temp == Clone_(m, begin)
    IN  IF ~Valid_(m, temp) \/ iterator_equal(temp, end)
        THEN [m |-> m, rc |-> CSTL_OK, hang |-> FALSE, result |-> NULL]
        ELSE LET r == partition_outer(m, pred, begin, end, Clone_(m, begin),
                                      Prev_(m, Clone_(m, end)))
             IN  [m |-> r.m, rc |-> CSTL_OK, hang |-> r.hang,
                  result |-> IF Valid_(m, r.first)
                             THEN Data_(m, r.first) ELSE NULL]

\* The first loop of algo_is_partitioned: iter moves on while the
\* predicate holds.
RECURSIVE is_partitioned_head(_, _, _, _)
is_partitioned_head(m, pred, iter, end) ==
    IF Valid_(m, iter) /\ ~iterator_equal(iter, end)
       /\ predicate(pred, Get(m, iter))
    THEN is_partitioned_head(m, pred, Next_(m, iter), end)
    ELSE iter

\* The second loop: 0 when the predicate holds for an element from iter on.
RECURSIVE is_partitioned_tail(_, _, _, _)
is_partitioned_tail(m, pred, iter, end) ==
    IF Valid_(m, iter) /\ ~iterator_equal(iter, end)
    THEN IF predicate(pred, Get(m, iter)) THEN 0
         ELSE is_partitioned_tail(m, pred, Next_(m, iter), end)
    ELSE 1

algo_is_partitioned(m, pred, begin, end) ==
    LET size == Size(m)
        temp == Clone_(m, begin)
    IN  IF ~Valid_(m, temp) \/ iterator_equal(temp, end)
        THEN [m |-> m, rc |-> CSTL_OK, is_partitioned |-> 1]
        ELSE LET iter == is_partitioned_head(m, pred, Clone_(m, begin), end)
                 found_false == Valid_(m, iter) /\ ~iterator_equal(iter, end)
             IN  [m |-> m, rc |-> CSTL_OK,
                  is_partitioned |->
                      IF ~found_false THEN 1
                      ELSE is_partitioned_tail(m, pred, iter, end)]

PartitionInit ==
    /\ OthersIdle({"algo"})
    /\ a_pc = "ready"
    /\ a_orig \in SortInputs
    /\ a_vec = a_orig
    /\ a_range \in Ranges(Len(a_orig))
    /\ a_range2 = <<0, 0>>
    /\ a_pred \in SUBSET Keys
    /\ a_ub = "stale"
    /\ a_last = NoCall
    /\ a_calls = 0

\* algo_partition(begin, end, predicate, &result)
PartitionCall ==
    /\ a_pc = "ready"
    /\ LET r == algo_partition(AlgoMem, a_pred, Begin, End)
       IN  AlgoCalled("algo_partition", r, r.result)

\* algo_is_partitioned(begin, end, predicate, &is_partitioned), on the
\* range algo_partition has just returned CSTL_OK for
IsPartitionedCall ==
    /\ a_pc = "done"
    /\ a_last.call = "algo_partition" /\ a_last.rc = CSTL_OK
    /\ LET r == algo_is_partitioned(AlgoMem, a_pred, Begin, End)
       IN  AlgoCalled("algo_is_partitioned", r, r.is_partitioned)

PartitionNext == PartitionCall \/ IsPartitionedCall

SpecPartition == PartitionInit /\ [][PartitionNext]_vars

\* C30: after algo_partition has returned CSTL_OK the range is a
\* permutation of its original contents, and algo_is_partitioned over the
\* same range with the same predicate reports 1.
C30_PartitionPartitions ==
    /\ a_last.call \in {"algo_partition", "algo_is_partitioned"} =>
           IsPermutation(InRange(a_vec, a_range), InRange(a_orig, a_range))
    /\ a_last.call = "algo_is_partitioned" => a_last.out = 1

-----------------------------------------------------------------------------
(* SpecSortRange: one call of algo_sort over a range [begin, end) of a     *)
(* vector, with each of the four algorithms; no malloc fails.              *)

SortRangeInit ==
    /\ OthersIdle({"algo"})
    /\ a_pc = "ready"
    /\ a_orig \in SortInputs
    /\ a_vec = a_orig
    /\ a_range \in Ranges(Len(a_orig))
    /\ a_range2 = <<0, 0>>
    /\ a_pred = {}
    /\ a_ub = ""
    /\ a_last = NoCall
    /\ a_calls = 0

\* algo_sort(begin, end, compare_int, algorithm); out is the algorithm
SortRangeCall(algorithm) ==
    /\ a_pc = "ready"
    /\ AlgoCalled("algo_sort",
                  algo_sort(AlgoMem, {}, Begin, End, algorithm), algorithm)

SortRangeNext == \E algorithm \in FourAlgorithms : SortRangeCall(algorithm)

SpecSortRange == SortRangeInit /\ [][SortRangeNext]_vars

\* The places of v outside the range [lo, hi) (lo, hi counted from 0).
Outside(v, r) == {i \in 1 .. Len(v) : i <= r[1] \/ i > r[2]}

\* C31: algo_sort over a range [begin, end) of a vector changes only
\* elements at places inside the range: every element before begin or at or
\* after end keeps its value, for each of the four algorithms.
C31_SortKeepsOutside ==
    a_last.call = "algo_sort" =>
        /\ a_pc = "done"
        /\ \A i \in Outside(a_orig, a_range) : a_vec[i] = a_orig[i]

\* A sort of a range in the middle of the vector that changed the range and
\* left an element on each side of it.
C31_Witness ==
    /\ a_last.call = "algo_sort" /\ a_pc = "done"
    /\ a_range[1] > 0 /\ a_range[2] < Len(a_orig)
    /\ a_vec # a_orig
    /\ a_last.out \in FourAlgorithms

-----------------------------------------------------------------------------
(* The doubly-linked list of list.c.  Two lists of one allocator; ls_mem   *)
(* holds the nodes that were created and not destroyed, each with its prev *)
(* and next fields, its element and the place it was taken from: the node  *)
(* pool of its list ("pool") or the allocator ("allocator").  The callers  *)
(* are one thread, thread_safe is 0 and list_lock does nothing; no         *)
(* allocation fails.  A position passed to a list is NULL or a node of     *)
(* that list.                                                              *)

MaxListNodes == 3  \* most nodes the allocator and the pool supply at a time

NODE_POOL == 1     \* the obj_pool_t a caller lends to a list

ListAddrs == {NodeAt(n) : n \in 1 .. MaxListNodes}

\* The elements pushed: one int each, of two values, so that equal and
\* different elements both meet in list_remove and list_sort.
Elements == {<<0>>, <<1>>}

\* What the functions of list.c read and write.  fault: a node was released
\* to a place it was not taken from.
ListState ==
    [mem |-> ls_mem, list |-> ls_list, released |-> ls_released,
     fault |-> FALSE]

SetPrev(mem, node, prev) == [mem EXCEPT ![node].prev = prev]
SetNext(mem, node, next) == [mem EXCEPT ![node].next = next]

\* The nodes from `node` on by next links, at most `fuel` of them; an
\* address that holds no node ends the walk.
RECURSIVE Forward(_, _, _)
Forward(mem, node, fuel) ==
    IF node = NULL \/ fuel = 0 THEN <<>>
    ELSE IF node \notin DOMAIN mem THEN <<node>>
    ELSE <<node>> \o Forward(mem, mem[node].next, fuel - 1)

\* The same by prev links.
RECURSIVE Backward(_, _, _)
Backward(mem, node, fuel) ==
    IF node = NULL \/ fuel = 0 THEN <<>>
    ELSE IF node \notin DOMAIN mem THEN <<node>>
    ELSE <<node>> \o Backward(mem, mem[node].prev, fuel - 1)

\* The nodes of list l.
NodesOf(S, l) ==
    LET f == Forward(S.mem, S.list[l].head, MaxListNodes)
    IN  {f[i] : i \in 1 .. Len(f)}

\* The address the next allocation returns.
NewNode(S) ==
    CHOOSE a \in ListAddrs \ DOMAIN S.mem :
        \A b \in ListAddrs \ DOMAIN S.mem : a <= b

list_create_node(S, l, element) ==
    LET node == NewNode(S)
        from == IF S.list[l].node_pool # NULL THEN "pool" ELSE "allocator"
    IN  [S |-> [S EXCEPT !.mem =
                    [a \in DOMAIN S.mem \cup {node} |->
                        IF a = node
                        THEN [prev |-> NULL, next |-> NULL, data |-> element,
                              from |-> from]
                        ELSE S.mem[a]]],
         node |-> node]

list_destroy_node(S, l, node) ==
    LET to == IF S.list[l].node_pool # NULL THEN "pool" ELSE "allocator"
    IN  [S EXCEPT !.mem = [a \in DOMAIN S.mem \ {node} |-> S.mem[a]],
                  !.released = @ \cup {<<S.mem[node].from, to>>},
                  !.fault = @ \/ S.mem[node].from # to]

RECURSIVE list_clear_loop(_, _, _)
list_clear_loop(S, l, node) ==
    IF node # NULL
    THEN list_clear_loop(list_destroy_node(S, l, node), l, S.mem[node].next)
    ELSE S

list_clear(S, l) ==
    LET T == list_clear_loop(S, l, S.list[l].head)
    IN  [T EXCEPT !.list[l].head = NULL, !.list[l].tail = NULL,
                  !.list[l].size = 0]

list_push_front(S, l, element) ==
    LET c == list_create_node(S, l, element)
        L == S.list[l]
        linked == SetNext(c.S.mem, c.node, L.head)
    IN  [c.S EXCEPT
            !.mem = IF L.head # NULL THEN SetPrev(linked, L.head, c.node)
                    ELSE linked,
            !.list[l].tail = IF L.head # NULL THEN @ ELSE c.node,
            !.list[l].head = c.node,
            !.list[l].size = @ + 1]

list_push_back(S, l, element) ==
    LET c == list_create_node(S, l, element)
        L == S.list[l]
        linked == SetPrev(c.S.mem, c.node, L.tail)
    IN  [c.S EXCEPT
            !.mem = IF L.tail # NULL THEN SetNext(linked, L.tail, c.node)
                    ELSE linked,
            !.list[l].head = IF L.tail # NULL THEN @ ELSE c.node,
            !.list[l].tail = c.node,
            !.list[l].size = @ + 1]

list_pop_front(S, l) ==
    LET node == S.list[l].head
        head == S.mem[node].next
        T == [S EXCEPT
                !.mem = IF head # NULL THEN SetPrev(@, head, NULL) ELSE @,
                !.list[l].head = head,
                !.list[l].tail = IF head # NULL THEN @ ELSE NULL]
    IN  IF node = NULL THEN S
        ELSE [list_destroy_node(T, l, node) EXCEPT !.list[l].size = @ - 1]

list_pop_back(S, l) ==
    LET node == S.list[l].tail
        tail == S.mem[node].prev
        T == [S EXCEPT
                !.mem = IF tail # NULL THEN SetNext(@, tail, NULL) ELSE @,
                !.list[l].tail = tail,
                !.list[l].head = IF tail # NULL THEN @ ELSE NULL]
    IN  IF node = NULL THEN S
        ELSE [list_destroy_node(T, l, node) EXCEPT !.list[l].size = @ - 1]

\* list_insert_before with position->prev = node left out.
list_insert_before_no_back_link(S, l, position, element) ==
    LET c == list_create_node(S, l, element)
        L == S.list[l]
        prev == S.mem[position].prev
        inside == SetNext(SetPrev(c.S.mem, c.node, prev), c.node, position)
    IN  IF position = NULL
        THEN list_push_back(S, l, element)
        ELSE [c.S EXCEPT
                !.mem = IF prev # NULL THEN SetNext(inside, prev, c.node)
                        ELSE inside,
                !.list[l].head = IF prev # NULL THEN @ ELSE c.node,
                !.list[l].size = @ + 1]

list_insert_before(S, l, position, element) ==
    LET c == list_create_node(S, l, element)
        L == S.list[l]
        prev == S.mem[position].prev
        atBack == SetPrev(c.S.mem, c.node, L.tail)
        inside == SetNext(SetPrev(c.S.mem, c.node, prev), c.node, position)
    IN  IF position = NULL
        THEN [c.S EXCEPT
                !.mem = IF L.tail # NULL THEN SetNext(atBack, L.tail, c.node)
                        ELSE atBack,
                !.list[l].head = IF L.tail # NULL THEN @ ELSE c.node,
                !.list[l].tail = c.node,
                !.list[l].size = @ + 1]
        ELSE [c.S EXCEPT
                !.mem = SetPrev(IF prev # NULL
                                THEN SetNext(inside, prev, c.node)
                                ELSE inside,
                                position, c.node),
                !.list[l].head = IF prev # NULL THEN @ ELSE c.node,
                !.list[l].size = @ + 1]

list_insert_after(S, l, position, element) ==
    LET c == list_create_node(S, l, element)
        L == S.list[l]
        next == S.mem[position].next
        atFront == SetNext(c.S.mem, c.node, L.head)
        inside == SetNext(SetPrev(c.S.mem, c.node, position), c.node, next)
    IN  IF position = NULL
        THEN [c.S EXCEPT
                !.mem = IF L.head # NULL THEN SetPrev(atFront, L.head, c.node)
                        ELSE atFront,
                !.list[l].tail = IF L.head # NULL THEN @ ELSE c.node,
                !.list[l].head = c.node,
                !.list[l].size = @ + 1]
        ELSE [c.S EXCEPT
                !.mem = SetNext(IF next # NULL
                                THEN SetPrev(inside, next, c.node)
                                ELSE inside,
                                position, c.node),
                !.list[l].tail = IF next # NULL THEN @ ELSE c.node,
                !.list[l].size = @ + 1]

\* The unlinking of `node` that list_erase and list_remove share.
list_unlink(S, l, node) ==
    LET prev == S.mem[node].prev
        next == S.mem[node].next
        first == IF prev # NULL THEN SetNext(S.mem, prev, next) ELSE S.mem
    IN  [S EXCEPT
            !.mem = IF next # NULL THEN SetPrev(first, next, prev) ELSE first,
            !.list[l].head = IF prev # NULL THEN @ ELSE next,
            !.list[l].tail = IF next # NULL THEN @ ELSE prev]

list_erase(S, l, position) ==
    [list_destroy_node(list_unlink(S, l, position), l, position)
        EXCEPT !.list[l].size = @ - 1]

\* while (node != NULL) of list_remove, with comparator compare_int
RECURSIVE list_remove_loop(_, _, _, _)
list_remove_loop(S, l, node, element) ==
    IF node = NULL THEN S
    ELSE IF compare_int(S.mem[node].data, element) = 0
    THEN list_remove_loop(list_erase(S, l, node), l, S.mem[node].next,
                          element)
    ELSE list_remove_loop(S, l, S.mem[node].next, element)

list_remove(S, l, element) ==
    list_remove_loop(S, l, S.list[l].head, element)

\* while (node != NULL) of list_reverse
RECURSIVE list_reverse_loop(_, _)
list_reverse_loop(mem, node) ==
    IF node = NULL THEN mem
    ELSE list_reverse_loop([mem EXCEPT ![node].prev = mem[node].next,
                                       ![node].next = mem[node].prev],
                           mem[node].next)

list_reverse(S, l) ==
    [S EXCEPT !.mem = list_reverse_loop(@, S.list[l].head),
              !.list[l].head = S.list[l].tail,
              !.list[l].tail = S.list[l].head]

list_merge(S, dst, src) ==
    LET L1 == S.list[dst]
        L2 == S.list[src]
        joined ==
            IF L1.head = NULL
            THEN [S EXCEPT !.list[dst].head = L2.head,
                           !.list[dst].tail = L2.tail]
            ELSE [S EXCEPT !.mem = SetPrev(SetNext(@, L1.tail, L2.head),
                                           L2.head, L1.tail),
                           !.list[dst].tail = L2.tail]
        summed == [joined EXCEPT !.list[dst].size = @ + L2.size]
    IN  IF L2.head = NULL THEN S
        ELSE [summed EXCEPT !.list[src].head = NULL,
                            !.list[src].tail = NULL,
                            !.list[src].size = 0]

\* list_node_t dummy = {0}, a node on the stack of list_merge_sort_helper
dummy == NodeAt(MaxListNodes + 1)

\* while (fast != NULL && fast->next != NULL): the middle node
RECURSIVE list_sort_middle(_, _, _)
list_sort_middle(mem, slow, fast) ==
    IF fast # NULL /\ mem[fast].next # NULL
    THEN list_sort_middle(mem, mem[slow].next, mem[mem[fast].next].next)
    ELSE slow

\* tail->next = node; node->prev = tail;
list_sort_link(mem, tail, node) ==
    IF node = NULL THEN SetNext(mem, tail, NULL)
    ELSE SetPrev(SetNext(mem, tail, node), node, tail)

\* while (left != NULL && right != NULL) and the linking of the rest
RECURSIVE list_sort_merge(_, _, _, _)
list_sort_merge(mem, left, right, tail) ==
    IF left # NULL /\ right # NULL
    THEN IF compare_int(mem[left].data, mem[right].data) <= 0
         THEN list_sort_merge(list_sort_link(mem, tail, left),
                              mem[left].next, right, left)
         ELSE list_sort_merge(list_sort_link(mem, tail, right),
                              left, mem[right].next, right)
    ELSE IF left # NULL THEN list_sort_link(mem, tail, left)
    ELSE list_sort_link(mem, tail, right)

RECURSIVE list_merge_sort_helper(_, _)
list_merge_sort_helper(mem, head) ==
    IF head = NULL \/ mem[head].next = NULL THEN [mem |-> mem, head |-> head]
    ELSE LET mid == list_sort_middle(mem, head, mem[head].next)
             right == mem[mid].next
             split == SetPrev(SetNext(mem, mid, NULL), right, NULL)
             l == list_merge_sort_helper(split, head)
             r == list_merge_sort_helper(l.mem, right)
             framed == [a \in DOMAIN r.mem \cup {dummy} |->
                           IF a = dummy
                           THEN [prev |-> NULL, next |-> NULL, data |-> <<0>>,
                                 from |-> "stack"]
                           ELSE r.mem[a]]
             merged == list_sort_merge(framed, l.head, r.head, dummy)
             result == merged[dummy].next
         IN  [mem |-> [a \in DOMAIN r.mem |->
                          IF a = result THEN [merged[a] EXCEPT !.prev = NULL]
                          ELSE merged[a]],
              head |-> result]

\* while (node->next != NULL) of list_sort: the last node
RECURSIVE list_sort_last(_, _)
list_sort_last(mem, node) ==
    IF mem[node].next # NULL THEN list_sort_last(mem, mem[node].next) ELSE node

list_sort(S, l) ==
    LET r == list_merge_sort_helper(S.mem, S.list[l].head)
    IN  IF S.list[l].head = NULL THEN S
        ELSE [S EXCEPT !.mem = r.mem,
                       !.list[l].head = r.head,
                       !.list[l].tail = list_sort_last(r.mem, r.head)]

list_set_node_pool(S, l, node_pool) ==
    [S EXCEPT !.list[l].node_pool = node_pool]

list_remove_node_pool(S, l) ==
    [S EXCEPT !.list[l].node_pool = NULL]

\* list_init for each of the lists
ListInit(lists) ==
    /\ OthersIdle({"list"})
    /\ ls_mem = <<>>
    /\ ls_list = [l \in lists |-> [head |-> NULL, tail |-> NULL, size |-> 0,
                                   node_pool |-> NULL]]
    /\ ls_released = {}
    /\ ls_pc = "list_init"

\* The allocator, or the pool, has a node left to give.
Room == DOMAIN ls_mem # ListAddrs

\* A call has returned and left S; a node released to the wrong place is
\* undefined behaviour (free of a pointer malloc did not return, or of an
\* object a pool still counts): the process goes on, or is ended.
ListCalled(call, S) ==
    /\ ls_pc # "crashed"
    /\ ls_mem' = S.mem
    /\ ls_list' = S.list
    /\ ls_released' = S.released
    /\ ls_pc' \in IF S.fault THEN {call, "crashed"} ELSE {call}
    /\ UNCHANGED notListVars

ListPush ==
    \E l \in DOMAIN ls_list, element \in Elements :
        /\ Room
        /\ \/ ListCalled("list_push_front",
                         list_push_front(ListState, l, element))
           \/ ListCalled("list_push_back",
                         list_push_back(ListState, l, element))

ListPop ==
    \E l \in DOMAIN ls_list :
        \/ ListCalled("list_pop_front", list_pop_front(ListState, l))
        \/ ListCalled("list_pop_back", list_pop_back(ListState, l))

ListInsert ==
    \E l \in DOMAIN ls_list, element \in Elements :
        \E position \in NodesOf(ListState, l) \cup {NULL} :
            /\ Room
            /\ \/ ListCalled("list_insert_before",
                             list_insert_before(ListState, l, position,
                                                element))
               \/ ListCalled("list_insert_after",
                             list_insert_after(ListState, l, position,
                                               element))

ListErase ==
    \E l \in DOMAIN ls_list : \E position \in NodesOf(ListState, l) :
        ListCalled("list_erase", list_erase(ListState, l, position))

ListRemove ==
    \E l \in DOMAIN ls_list, element \in Elements :
        ListCalled("list_remove", list_remove(ListState, l, element))

ListReverse ==
    \E l \in DOMAIN ls_list :
        ListCalled("list_reverse", list_reverse(ListState, l))

ListMerge ==
    \E dst \in DOMAIN ls_list, src \in DOMAIN ls_list :
        ListCalled("list_merge", list_merge(ListState, dst, src))

ListSort ==
    \E l \in DOMAIN ls_list : ListCalled("list_sort", list_sort(ListState, l))

ListClear ==
    \E l \in DOMAIN ls_list :
        ListCalled("list_clear", list_clear(ListState, l))

ListSetNodePool ==
    \E l \in DOMAIN ls_list, node_pool \in {NULL, NODE_POOL} :
        ListCalled("list_set_node_pool",
                   list_set_node_pool(ListState, l, node_pool))

ListRemoveNodePool ==
    \E l \in DOMAIN ls_list :
        ListCalled("list_remove_node_pool",
                   list_remove_node_pool(ListState, l))

ListPoolNext ==
    \/ ListPush
    \/ ListPop
    \/ ListErase
    \/ ListClear
    \/ ListSetNodePool
    \/ ListRemoveNodePool

\* One list.
ListPoolInit == ListInit({"A"})

SpecListPool == ListPoolInit /\ [][ListPoolNext]_vars

\* C32: every list node is released by the mechanism that allocated it: a
\* node taken from the node pool goes back with obj_pool_free, a node taken
\* from the allocator goes back to the allocator, whatever the order of
\* list_set_node_pool and list_remove_node_pool among push, pop, erase and
\* clear, a pool attached or detached while the list holds nodes included.
C32_NodesReleasedWhereTaken ==
    \A r \in ls_released : r[1] = r[2]

-----------------------------------------------------------------------------
\* C33: after any sequence of obj_pool_alloc and obj_pool_free calls in
\* which callers free only objects they hold, each once, free_objects equals
\* count, allocated_objects equals the number of objects callers hold, and
\* count plus the number of held objects is at most capacity.
C33_ObjCountersAgree ==
    /\ op_free = count
    /\ op_alloc = Cardinality(op_issued)
    /\ count + Cardinality(op_issued) <= op_cap

\* An object has just been freed while another is held and a third is
\* free, in a pool whose array has a place no object fills (an allocation
\* of a burst failed).
C33_Witness ==
    /\ op_last.op = "free"
    /\ op_alloc >= 1
    /\ op_free >= 2
    /\ count + Cardinality(op_issued) < op_cap

-----------------------------------------------------------------------------
\* The blocks callers hold.
HeldBlocks == UNION {mp_held[t] : t \in DOMAIN mp_held}

\* No call of mem_pool_alloc or mem_pool_free is under way.
PoolAtRest == \A t \in DOMAIN mp_pc : mp_pc[t] = "idle"

\* C34: whenever no operation on the pool is in progress, free_blocks is
\* the number of blocks on the free list and allocated_blocks the number of
\* blocks callers hold, after any sequence of mem_pool_alloc and
\* mem_pool_free calls, allocations whose growth burst was only partly
\* satisfied included.
C34_BlockCountersAgree ==
    PoolAtRest =>
        /\ mp_free = Cardinality(FreeList)
        /\ mp_alloc = Cardinality(HeldBlocks)

\* The pool is at rest after a burst of two that got its first block only
\* and a free; one block is held and one is on the free list.
C34_Witness ==
    /\ PoolAtRest
    /\ mp_grow = 2
    /\ \E t \in DOMAIN mp_burst :
          mp_burst[t].asked = 2 /\ mp_burst[t].extras = 0
    /\ mp_alloc = 1 /\ mp_free = 1

-----------------------------------------------------------------------------
(* SpecPoolStats: the threads of SpecMemPool and one more thread that      *)
(* calls mem_pool_get_stats on the same pool once.  mem_pool_get_stats     *)
(* does not take pool->lock: it reads one counter, then the other.         *)

PoolStatsInit ==
    /\ OthersIdle({"pool", "stats"})
    /\ \E g \in 1 .. MaxGrowConc : mem_pool_create(g, MaxBlocksConc, Threads)
    /\ st_pc = "ready"
    /\ st_out = <<>>

\* mem_pool_get_stats(pool, &allocated_blocks, &free_blocks): none is NULL
StatsCall ==
    /\ st_pc = "ready"
    /\ st_pc' = "read_allocated"
    /\ UNCHANGED <<st_out, notStatsVars>>

\* *allocated_blocks = (size_t)atomic_read(&pool->allocated_blocks)
StatsReadAllocated ==
    /\ st_pc = "read_allocated"
    /\ st_out' = <<mp_alloc>>
    /\ st_pc' = "read_free"
    /\ UNCHANGED notStatsVars

\* *free_blocks = (size_t)atomic_read(&pool->free_blocks); return CSTL_OK
StatsReadFree ==
    /\ st_pc = "read_free"
    /\ st_out' = Append(st_out, mp_free)
    /\ st_pc' = "done"
    /\ UNCHANGED notStatsVars

PoolStatsNext ==
    \/ \E t \in Threads :
        \/ ThreadAlloc(t)
        \/ AllocLock(t)
        \/ AllocRead(t)
        \/ AllocPop(t)
        \/ AllocFail(t)
        \/ AllocGrow(t)
        \/ AllocCount(t)
        \/ AllocReturn(t)
        \/ ThreadFree(t)
        \/ FreeLock(t)
        \/ FreeLink(t)
        \/ FreePush(t)
        \/ FreeCount(t)
        \/ FreeReturn(t)
    \/ StatsCall
    \/ StatsReadAllocated
    \/ StatsReadFree

SpecPoolStats == PoolStatsInit /\ [][PoolStatsNext]_vars

\* C35: mem_pool_get_stats called while other threads call mem_pool_alloc
\* and mem_pool_free on the pool returns a pair (allocated, free) that the
\* pool's counters both held at one instant between pool operations, never
\* a value from before an alloc or free with a value from after it.
C35_StatsPairWasHeld ==
    st_pc = "done" => st_out \in mp_seen

-----------------------------------------------------------------------------
(* SpecList: two lists without a node pool and any sequence of the calls   *)
(* that change the links of a list.                                        *)

TwoListsInit == ListInit(Lists)

ListNext ==
    \/ ListPush
    \/ ListPop
    \/ ListInsert
    \/ ListErase
    \/ ListRemove
    \/ ListReverse
    \/ ListMerge
    \/ ListSort

SpecList == TwoListsInit /\ [][ListNext]_vars

\* s from its last element to its first.
Backwards(s) == [i \in 1 .. Len(s) |-> s[Len(s) + 1 - i]]

\* List l is well formed: size nodes from head by next links, the last of
\* them tail, and the same nodes from tail by prev links.
WellFormed(l) ==
    LET L == ls_list[l]
        forward == Forward(ls_mem, L.head, MaxListNodes + 1)
        backward == Backward(ls_mem, L.tail, MaxListNodes + 1)
    IN  /\ \A i \in 1 .. Len(forward) : forward[i] \in DOMAIN ls_mem
        /\ L.size = Len(forward)
        /\ (L.head = NULL) = (L.tail = NULL)
        /\ (L.head = NULL) = (L.size = 0)
        /\ L.head # NULL => /\ ls_mem[L.head].prev = NULL
                            /\ ls_mem[L.tail].next = NULL
        /\ backward = Backwards(forward)

\* C36: after any sequence of push_front, push_back, pop_front, pop_back,
\* insert_before, insert_after, erase, remove, reverse, merge and sort on
\* lists, each list's size is the number of nodes reachable from head by
\* next links, head is null iff tail is null iff size is 0, head.prev and
\* tail.next are null, and the prev links from tail visit the same nodes in
\* reverse order.
C36_ListsWellFormed == \A l \in DOMAIN ls_list : WellFormed(l)

\* list_sort has returned; one list holds two nodes, sorted and not in the
\* order of their addresses, the other list holds a node.
C36_Witness ==
    /\ ls_pc = "list_sort"
    /\ \A l \in DOMAIN ls_list : ls_list[l].size >= 1
    /\ \E l \in DOMAIN ls_list :
          /\ ls_list[l].size = 2
          /\ ls_list[l].head > ls_list[l].tail
          /\ ls_mem[ls_list[l].head].data[1] < ls_mem[ls_list[l].tail].data[1]

-----------------------------------------------------------------------------
(* SpecQuickPartition: one call of quick_sort_partition over a range       *)
(* [begin, end) of a vector, as quick_sort_impl makes it; no malloc fails. *)

\* quick_sort_partition(begin, end, compare_int, element_size, &pivot); out
\* is the index of *pivot in the vector (counted from 0), -1 when *pivot
\* was not assigned
QuickPartitionCall ==
    /\ a_pc = "ready"
    /\ LET r == quick_sort_partition(AlgoMem, Begin, End)
       IN  AlgoCalled("quick_sort_partition", r,
                      IF r.set THEN r.pivot.index ELSE -1)

QuickPartitionNext == QuickPartitionCall

SpecQuickPartition == SortRangeInit /\ [][QuickPartitionNext]_vars

\* C37: quick_sort_partition on a range of at least two elements returns
\* CSTL_OK with *pivot at a place p of the range; the element at p is the
\* one that was last in the range, every element of the range before p
\* compares <= it, every element of the range after p compares > it, and
\* the range is a permutation of its original contents.
C37_PartitionAroundLast ==
    (a_last.call = "quick_sort_partition" /\ a_range[2] - a_range[1] >= 2) =>
        LET p == a_last.out + 1
            pivot == a_orig[a_range[2]]
        IN  /\ a_pc = "done" /\ a_last.rc = CSTL_OK
            /\ p > a_range[1] /\ p <= a_range[2]
            /\ a_vec[p] = pivot
            /\ \A k \in a_range[1] + 1 .. p - 1 :
                   compare_int(a_vec[k], pivot) <= 0
            /\ \A k \in p + 1 .. a_range[2] :
                   compare_int(a_vec[k], pivot) > 0
            /\ IsPermutation(InRange(a_vec, a_range), InRange(a_orig, a_range))

\* A partition of a range that starts inside the vector and moved the
\* pivot between an element with the pivot's key and a greater one.
C37_Witness ==
    /\ a_last.call = "quick_sort_partition" /\ a_pc = "done"
    /\ a_range[1] > 0
    /\ a_last.out > a_range[1] /\ a_last.out + 1 < a_range[2]
    /\ a_vec[a_last.out][1] = a_vec[a_last.out + 1][1]
    /\ a_vec # a_orig

-----------------------------------------------------------------------------
(* algo_unique, and SpecAlgoFrame: one call of algo_unique or of algo_sort *)
(* over a range [begin, end) of a vector.  a_range holds the places of the *)
(* caller's two iterators; algo_unique is handed the iterators themselves  *)
(* and what it does to them is seen by the caller.                         *)

\* while (iterator_valid(move_src) && !iterator_equal(move_src, end))
\*     memcpy(dest_element, src_element, element_size), both advanced
RECURSIVE unique_move(_, _, _, _)
unique_move(m, move_src, move_dest, end) ==
    IF Valid_(m, move_src) /\ ~iterator_equal(move_src, end)
    THEN unique_move(
             Store(m, Data_(m, move_dest), Load(m, Data_(m, move_src))),
             Next_(m, move_src), Next_(m, move_dest), end)
    ELSE m

\* while (iterator_valid(current) && !iterator_equal(current, end)); end is
\* the caller's iterator, stepped back by iterator_prev(end) for every
\* element removed; removed is *count.
RECURSIVE unique_loop(_, _, _, _, _)
unique_loop(m, prev, current, end, removed) ==
    IF Valid_(m, current) /\ ~iterator_equal(current, end)
    THEN IF compare_int(Load(m, Data_(m, prev)),
                        Load(m, Data_(m, current))) = 0
         THEN LET next == Next_(m, Clone_(m, current))
                  moved == unique_move(m, Clone_(m, next),
                                       Clone_(m, current), end)
              IN  unique_loop(moved, prev, current, Prev_(m, end), removed + 1)
         ELSE unique_loop(m, Next_(m, prev), Next_(m, current), end, removed)
    ELSE [m |-> m, rc |-> CSTL_OK, count |-> removed, end |-> end]

\* algo_unique with iterator_prev(end) done on a clone of end.
algo_unique_on_clone(m, begin, end) ==
    LET temp == Clone_(m, begin)
    IN  IF ~Valid_(m, temp) \/ iterator_equal(temp, end)
        THEN [m |-> m, rc |-> CSTL_OK, count |-> 0, end |-> end]
        ELSE [unique_loop(m, Clone_(m, begin), Next_(m, Clone_(m, begin)),
                          end, 0) EXCEPT !.end = end]

\* Returns the memory, the return code, *count and the iterator end as the
\* call leaves it.
algo_unique(m, begin, end) ==
    LET temp == Clone_(m, begin)
    IN  IF ~Valid_(m, temp) \/ iterator_equal(temp, end)
        THEN [m |-> m, rc |-> CSTL_OK, count |-> 0, end |-> end]
        ELSE unique_loop(m, Clone_(m, begin), Next_(m, Clone_(m, begin)),
                         end, 0)

\* The places of the caller's iterators before a call, with what the call
\* stored through its output argument.
Passed(out) == [begin |-> a_range[1], end |-> a_range[2], out |-> out]

\* algo_unique(begin, end, compare_int, &count)
UniqueCall ==
    /\ a_pc = "ready"
    /\ LET r == algo_unique(AlgoMem, Begin, End)
       IN  /\ a_vec' = r.m.v
           /\ a_pc' = IF r.m.fault THEN "crashed" ELSE "done"
           /\ a_last' = [call |-> "algo_unique", rc |-> r.rc,
                         out |-> Passed(r.count), before |-> a_vec]
           /\ a_range' = <<a_range[1], r.end.index>>
    /\ a_calls' = a_calls + 1
    /\ UNCHANGED <<a_orig, a_range2, a_pred, a_ub, notAlgoVars>>

\* algo_sort(begin, end, compare_int, algorithm)
FrameSortCall(algorithm) ==
    /\ a_pc = "ready"
    /\ AlgoCalled("algo_sort", algo_sort(AlgoMem, {}, Begin, End, algorithm),
                  Passed(algorithm))

AlgoFrameNext ==
    \/ UniqueCall
    \/ \E algorithm \in FourAlgorithms : FrameSortCall(algorithm)

SpecAlgoFrame == SortRangeInit /\ [][AlgoFrameNext]_vars

\* C38 as stated: after any call the caller's begin and end are at the
\* places they were at before it, algo_unique included.
C38_AsStated ==
    a_last.call # "none" =>
        a_range = <<a_last.out.begin, a_last.out.end>>

\* C38: after a call has returned, the caller's begin is at the place it
\* was at before the call; so is end after algo_sort, while algo_unique
\* leaves end *count places before the place it was at.
C38_BeginKeptEndBackByCount ==
    a_last.call # "none" =>
        /\ a_pc = "done"
        /\ a_range[1] = a_last.out.begin
        /\ a_range[2] = IF a_last.call = "algo_unique"
                        THEN a_last.out.end - a_last.out.out
                        ELSE a_last.out.end

\* algo_unique has removed an element of a range that does not end at the
\* end of the vector, and the caller's end is one place further back.
C38_Witness ==
    /\ a_last.call = "algo_unique" /\ a_pc = "done"
    /\ a_last.out.out >= 1
    /\ a_last.out.end < Len(a_orig)
    /\ a_range[2] < a_last.out.end
    /\ a_vec # a_orig

-----------------------------------------------------------------------------
(* SpecRwLock: the reader-writer lock of common.c as it is built for       *)
(* Windows: a critical section, the counters readers and writers, and the  *)
(* manual-reset event write_event.  Each thread calls rwlock_rdlock or     *)
(* rwlock_wrlock, and rwlock_unlock when it holds the lock, again and      *)
(* again.  rw_pc[t] is "idle", the statement t is at, or "reading" /       *)
(* "writing" once its rwlock_rdlock / rwlock_wrlock has returned.  A       *)
(* thread inside WaitForSingleObject on the unsignaled event is "blocked"  *)
(* and is released by SetEvent.                                            *)

NRwThreads == 3
RwThreads == 1 .. NRwThreads

\* rwlock_init: CreateEvent(NULL, TRUE, TRUE, NULL), manual reset, signaled
RwInit ==
    /\ OthersIdle({"rw"})
    /\ rw_lock = 0
    /\ rw_readers = 0
    /\ rw_writers = 0
    /\ rw_event = TRUE
    /\ rw_pc = [t \in RwThreads |-> "idle"]

RwGoto(t, pc) == rw_pc' = [rw_pc EXCEPT ![t] = pc]

\* EnterCriticalSection(&rwlock->lock) by thread t, which goes on at `to`
EnterCriticalSection(t, to) ==
    /\ rw_lock = 0
    /\ rw_lock' = t
    /\ RwGoto(t, to)
    /\ UNCHANGED <<rw_readers, rw_writers, rw_event, notRwVars>>

\* WaitForSingleObject(rwlock->write_event, INFINITE): returns when the
\* event is signaled, else the thread blocks
WaitForSingleObject(t, to, blocked) ==
    /\ RwGoto(t, IF rw_event THEN to ELSE blocked)
    /\ UNCHANGED <<rw_lock, rw_readers, rw_writers, rw_event, notRwVars>>

\* SetEvent(rwlock->write_event) by thread t, which goes on at `to`: every
\* thread blocked on the event is released.
SetEvent(t, to) ==
    [u \in RwThreads |->
        IF u = t THEN to
        ELSE IF rw_pc[u] = "rd_blocked" THEN "rd_reenter"
        ELSE IF rw_pc[u] = "wr_blocked" THEN "wr_reenter"
        ELSE rw_pc[u]]

\* rwlock_rdlock(rwlock)
RdlockCall(t) ==
    /\ rw_pc[t] = "idle"
    /\ RwGoto(t, "rd_enter")
    /\ UNCHANGED <<rw_lock, rw_readers, rw_writers, rw_event, notRwVars>>

RdlockEnter(t) ==
    /\ rw_pc[t] = "rd_enter"
    /\ EnterCriticalSection(t, "rd_test")

\* while (rwlock->writers > 0) { LeaveCriticalSection ...
RdlockLeave(t) ==
    /\ rw_pc[t] = "rd_test"
    /\ rw_writers > 0
    /\ rw_lock' = 0
    /\ RwGoto(t, "rd_wait")
    /\ UNCHANGED <<rw_readers, rw_writers, rw_event, notRwVars>>

RdlockWait(t) ==
    /\ rw_pc[t] = "rd_wait"
    /\ WaitForSingleObject(t, "rd_reenter", "rd_blocked")

RdlockReenter(t) ==
    /\ rw_pc[t] = "rd_reenter"
    /\ EnterCriticalSection(t, "rd_test")

\* rwlock->readers++; LeaveCriticalSection; return CSTL_OK
RdlockTake(t) ==
    /\ rw_pc[t] = "rd_test"
    /\ rw_writers = 0
    /\ rw_readers' = rw_readers + 1
    /\ rw_lock' = 0
    /\ RwGoto(t, "reading")
    /\ UNCHANGED <<rw_writers, rw_event, notRwVars>>

\* rwlock_wrlock(rwlock)
WrlockCall(t) ==
    /\ rw_pc[t] = "idle"
    /\ RwGoto(t, "wr_enter")
    /\ UNCHANGED <<rw_lock, rw_readers, rw_writers, rw_event, notRwVars>>

WrlockEnter(t) ==
    /\ rw_pc[t] = "wr_enter"
    /\ EnterCriticalSection(t, "wr_count")

\* rwlock->writers++
WrlockCount(t) ==
    /\ rw_pc[t] = "wr_count"
    /\ rw_writers' = rw_writers + 1
    /\ RwGoto(t, "wr_test")
    /\ UNCHANGED <<rw_lock, rw_readers, rw_event, notRwVars>>

\* while (rwlock->readers > 0 || rwlock->writers > 1) { LeaveCriticalSection
WrlockLeave(t) ==
    /\ rw_pc[t] = "wr_test"
    /\ rw_readers > 0 \/ rw_writers > 1
    /\ rw_lock' = 0
    /\ RwGoto(t, "wr_wait")
    /\ UNCHANGED <<rw_readers, rw_writers, rw_event, notRwVars>>

WrlockWait(t) ==
    /\ rw_pc[t] = "wr_wait"
    /\ WaitForSingleObject(t, "wr_reenter", "wr_blocked")

WrlockReenter(t) ==
    /\ rw_pc[t] = "wr_reenter"
    /\ EnterCriticalSection(t, "wr_test")

\* ResetEvent(rwlock->write_event); LeaveCriticalSection; return CSTL_OK
WrlockTake(t) ==
    /\ rw_pc[t] = "wr_test"
    /\ ~(rw_readers > 0 \/ rw_writers > 1)
    /\ rw_event' = FALSE
    /\ rw_lock' = 0
    /\ RwGoto(t, "writing")
    /\ UNCHANGED <<rw_readers, rw_writers, notRwVars>>

\* rwlock_unlock(rwlock), by a thread whose rwlock_rdlock or rwlock_wrlock
\* has returned
UnlockCall(t) ==
    /\ rw_pc[t] \in {"reading", "writing"}
    /\ RwGoto(t, "un_enter")
    /\ UNCHANGED <<rw_lock, rw_readers, rw_writers, rw_event, notRwVars>>

UnlockEnter(t) ==
    /\ rw_pc[t] = "un_enter"
    /\ EnterCriticalSection(t, "un_test")

\* if (rwlock->writers > 0) { rwlock->writers--; if (rwlock->writers == 0)
\* SetEvent } ; LeaveCriticalSection; return CSTL_OK
UnlockWriter(t) ==
    /\ rw_pc[t] = "un_test"
    /\ rw_writers > 0
    /\ rw_writers' = rw_writers - 1
    /\ rw_event' = (rw_event \/ rw_writers' = 0)
    /\ rw_pc' = IF rw_writers' = 0 THEN SetEvent(t, "idle")
                ELSE [rw_pc EXCEPT ![t] = "idle"]
    /\ rw_lock' = 0
    /\ UNCHANGED <<rw_readers, notRwVars>>

\* else { rwlock->readers--; if (rwlock->readers == 0) SetEvent } ;
\* LeaveCriticalSection; return CSTL_OK
UnlockReader(t) ==
    /\ rw_pc[t] = "un_test"
    /\ rw_writers = 0
    /\ rw_readers' = rw_readers - 1
    /\ rw_event' = (rw_event \/ rw_readers' = 0)
    /\ rw_pc' = IF rw_readers' = 0 THEN SetEvent(t, "idle")
                ELSE [rw_pc EXCEPT ![t] = "idle"]
    /\ rw_lock' = 0
    /\ UNCHANGED <<rw_writers, notRwVars>>

\* The steps of thread t inside a call, and its call of rwlock_unlock.
RwStep(t) ==
    \/ RdlockLeave(t)
    \/ RdlockWait(t)
    \/ RdlockTake(t)
    \/ WrlockCount(t)
    \/ WrlockLeave(t)
    \/ WrlockWait(t)
    \/ WrlockTake(t)
    \/ UnlockCall(t)
    \/ UnlockWriter(t)
    \/ UnlockReader(t)

\* Its steps that enter the critical section.
RwEnter(t) ==
    \/ RdlockEnter(t)
    \/ RdlockReenter(t)
    \/ WrlockEnter(t)
    \/ WrlockReenter(t)
    \/ UnlockEnter(t)

RwLockNext ==
    \/ \E t \in RwThreads : RdlockCall(t)
    \/ \E t \in RwThreads : RdlockEnter(t)
    \/ \E t \in RwThreads : RdlockLeave(t)
    \/ \E t \in RwThreads : RdlockWait(t)
    \/ \E t \in RwThreads : RdlockReenter(t)
    \/ \E t \in RwThreads : RdlockTake(t)
    \/ \E t \in RwThreads : WrlockCall(t)
    \/ \E t \in RwThreads : WrlockEnter(t)
    \/ \E t \in RwThreads : WrlockCount(t)
    \/ \E t \in RwThreads : WrlockLeave(t)
    \/ \E t \in RwThreads : WrlockWait(t)
    \/ \E t \in RwThreads : WrlockReenter(t)
    \/ \E t \in RwThreads : WrlockTake(t)
    \/ \E t \in RwThreads : UnlockCall(t)
    \/ \E t \in RwThreads : UnlockEnter(t)
    \/ \E t \in RwThreads : UnlockWriter(t)
    \/ \E t \in RwThreads : UnlockReader(t)

\* Every thread inside a call goes on while it can, a thread that tries to
\* enter the critical section again and again gets in, and a thread that
\* holds the lock calls rwlock_unlock in the end.  No thread has to call
\* rwlock_rdlock or rwlock_wrlock.
SpecRwLock ==
    /\ RwInit
    /\ [][RwLockNext]_vars
    /\ \A t \in RwThreads : WF_vars(RwStep(t)) /\ SF_vars(RwEnter(t))

InRdlock(t) ==
    rw_pc[t] \in {"rd_enter", "rd_test", "rd_wait", "rd_blocked", "rd_reenter"}
InWrlock(t) ==
    rw_pc[t] \in {"wr_enter", "wr_count", "wr_test", "wr_wait", "wr_blocked",
                  "wr_reenter"}

\* C39: a thread inside rwlock_rdlock or rwlock_wrlock gets the lock in the
\* end, when every thread that gets the lock calls rwlock_unlock in the end.
C39_BlockedThreadAcquires ==
    \A t \in RwThreads :
        /\ InRdlock(t) ~> rw_pc[t] = "reading"
        /\ InWrlock(t) ~> rw_pc[t] = "writing"
====
